---- MODULE Spec2Model ----
(***************************************************************************)
(* ttyemu: ASR-33 teletype emulator.                                       *)
(*                                                                         *)
(* Model of the overstrike line model (AbstractLine) and of the cursor /   *)
(* scroll state machine (Terminal) of ttyemu.py.                           *)
(*                                                                         *)
(* Characters are modelled by their code points (ord), so that the         *)
(* comparisons and the arithmetic of the source (char >= " ", upper) are   *)
(* computed as the source computes them.  A string is a sequence of code   *)
(* points.  An extent is the pair <<begin, text>> of the source.           *)
(***************************************************************************)
EXTENDS Integers, Sequences, FiniteSets, TLC

(***************************************************************************)
(* Program constants.                                                      *)
(***************************************************************************)
COLUMNS == 72

BEL == 7
BS == 8
TAB == 9
LF == 10
FF == 12
CR == 13
SP == 32
ChUnder == 95
ChA == 97
ChB == 98
ChD == 100
ChL == 108
ChO == 111

(***************************************************************************)
(* Bounds of the exploration.                                              *)
(***************************************************************************)
\* operations explored on one Terminal
MaxOps == 4
\* largest lines_screen() a frontend reports
MaxLinesScreen == 3
\* characters fed to one AbstractLine
MaxLineChars == 3
\* longest string given to one string_test call
MaxChunk == 2
\* longest text of the overstrike unit tests
MaxText == 4
\* operations explored on a Terminal and a line fed together
MaxFeeds == 3
\* printable characters given to output_char in one run
MaxPrints == 1
\* calls of keypress, print_chars, lid and platen on one PygameSounds
MaxCalls == 2
\* timer events posted and not yet handled
MaxPending == 2
\* character events the pygame queue holds
QueueSize == 1
\* empty strings TelnetLib3Backend.reader posts after the end of the stream
MaxEmptyPosts == 1
\* print_chars and lid calls made before the engine is left to its timers
MaxLiveCalls == 1
\* keystrokes given to write_char
MaxKeys == 2
\* effects dispatched by repeated platen() calls
MaxEffects == 5

VARIABLES
    \* Terminal
    line, column, scroll_base, max_line, lines,
    \* Frontend: lines_screen() and the calls received during the last operation
    lines_per_screen, fe,
    \* the last Terminal operation, the Terminal state before it, operations so far
    op, pre, nops,
    \* AbstractLine under string_test / place_char
    extents, lcolumn, lbase, lstart, lhist, lop, lpre, lfed,
    \* AbstractLine.unit_test
    ut_chars, ut_extents, ut_column, ut_done,
    \* printable characters given to output_char so far
    nprinted,
    \* PygameSounds: the sound dict is loaded, lid, effect cursor, counters
    sounds, lid_state, fx, active_key_count, active_printout,
    \* volume of the hum, spaces and chars sounds, in thousandths
    volume,
    \* mixer channels: what each one plays, which are paused, and those playing an
    \* effect in the order the effects were started
    playing, paused, fx_order,
    \* start() has taken its channels and loop sounds
    ready,
    \* pygame timers that are armed, and the timer events posted and not yet handled
    timers, events,
    \* the last PygameSounds call, the state before it, what it did
    sop, spre, sfx,
    \* calls made on PygameSounds, keypress calls, key effects played
    ncalls, keys_pressed, key_effects,
    \* main(frontend, backend): the classes of the two, the backend's fast_mode
    frontend, backend, fast_mode,
    \* the frontend's terminal reference is set
    terminal_set,
    \* the transport: characters not read yet, and whether it is open
    incoming, stream,
    \* the backend thread: "running", "done" (thread_target returned), "read_raised" or
    \* "post_raised" (ended by an exception out of the read, out of postchars); and
    \* whether a read of its loop has met the end of the stream
    thread, closure_met,
    \* the character events posted to pygame and not yet handled
    queue,
    \* the strings the backend thread gave to postchars, and the strings given to
    \* Terminal.output_chars with the thread that ran it
    posted, delivered,
    \* write_char against thread_target: the transport thread's position, the state of
    \* the transport, whether the backend's handle on it (channel, conn, write_fd) is
    \* not None, the write_char call in progress, what became of each keystroke
    tpc, link, handle, writing, keys

termVars == <<line, column, scroll_base, max_line, lines, lines_per_screen, fe, op, pre, nops>>
lineVars == <<extents, lcolumn, lbase, lstart, lhist, lop, lpre, lfed>>
testVars == <<ut_chars, ut_extents, ut_column, ut_done>>
sndVars ==
    <<sounds, lid_state, fx, active_key_count, active_printout, volume, playing, paused,
      fx_order, ready, timers, events, sop, spre, sfx, ncalls, keys_pressed, key_effects>>
wireVars ==
    <<frontend, backend, fast_mode, terminal_set, incoming, stream, thread, closure_met,
      queue, posted, delivered>>
writeVars == <<tpc, link, handle, writing, keys>>
vars == <<termVars, nprinted, lineVars, testVars, sndVars, wireVars, writeVars>>

Min(a, b) == IF a < b THEN a ELSE b

(***************************************************************************)
(* upper                                                                   *)
(***************************************************************************)
upper(char) ==
    LET ochar == (char - 32) % 128
    IN  IF ochar > 64 THEN (32 + (ochar % 32)) + 32 ELSE ochar + 32

(***************************************************************************)
(* AbstractLine                                                            *)
(***************************************************************************)
\* the loop body, were it to put the character in the place of the one an extent
\* holds at the column
place_char_merge_replacing(e, col, char) ==
    LET begin == e[1]
        text  == e[2]
        end   == begin + Len(text)
    IN  IF begin <= col /\ col < end THEN <<begin, [text EXCEPT ![col - begin + 1] = char]>>
        ELSE IF end = col THEN <<begin, Append(text, char)>>
        ELSE IF end + 1 = col THEN <<begin, text \o <<SP, char>>>>
        ELSE e

\* one pass of the for loop body of place_char over extent e
place_char_merge(e, col, char) ==
    LET begin == e[1]
        text  == e[2]
        end   == begin + Len(text)
    IN  IF end = col THEN <<begin, Append(text, char)>>
        ELSE IF end + 1 = col THEN <<begin, text \o <<SP, char>>>>
        ELSE e

\* the for loop of place_char: every extent is visited, none ends the loop
RECURSIVE place_char_loop(_, _, _)
place_char_loop(exts, col, char) ==
    IF exts = <<>> THEN <<>>
    ELSE <<place_char_merge(Head(exts), col, char)>> \o place_char_loop(Tail(exts), col, char)

\* place_char without its test for a space
place_char_stores_space(exts, col, char) ==
    Append(place_char_loop(exts, col, char), <<col, <<char>>>>)

\* AbstractLine.place_char: the extents after the call
place_char(exts, col, char) ==
    IF char = SP THEN exts
    ELSE Append(place_char_loop(exts, col, char), <<col, <<char>>>>)

\* the tab stop of string_test: (column + 8) & -8
line_tab(col) == ((col + 8) \div 8) * 8

\* the clamp without its test of the right margin
line_clamp_left_only(col) == IF col < 0 THEN 0 ELSE col

\* the clamp at the end of each iteration of string_test
line_clamp(col) ==
    LET c1 == IF col > 71 THEN 71 ELSE col
    IN  IF c1 < 0 THEN 0 ELSE c1

\* the iteration without the carriage return case
string_test_step_no_cr(exts, col, char) ==
    IF char = TAB THEN <<exts, line_clamp(line_tab(col))>>
    ELSE IF char = BS THEN <<exts, line_clamp(col - 1)>>
    ELSE <<place_char(exts, col, char), line_clamp(col + 1)>>

\* the iteration without the backspace case
string_test_step_no_bs(exts, col, char) ==
    IF char = TAB THEN <<exts, line_clamp(line_tab(col))>>
    ELSE IF char = CR THEN <<exts, line_clamp(0)>>
    ELSE <<place_char(exts, col, char), line_clamp(col + 1)>>

\* the iteration without the clamp
string_test_step_unclamped(exts, col, char) ==
    IF char = TAB THEN <<exts, line_tab(col)>>
    ELSE IF char = CR THEN <<exts, 0>>
    ELSE IF char = BS THEN <<exts, col - 1>>
    ELSE <<place_char(exts, col, char), col + 1>>

\* one iteration of the loop of string_test: <<extents, col>> after it
string_test_step(exts, col, char) ==
    IF char = TAB THEN <<exts, line_clamp(line_tab(col))>>
    ELSE IF char = CR THEN <<exts, line_clamp(0)>>
    ELSE IF char = BS THEN <<exts, line_clamp(col - 1)>>
    ELSE <<place_char(exts, col, char), line_clamp(col + 1)>>

\* string_test that clamps the column once, after the loop
RECURSIVE string_test_unclamped(_, _, _)
string_test_unclamped(exts, chars, col) ==
    IF chars = <<>> THEN <<exts, col>>
    ELSE LET r == string_test_step_unclamped(exts, col, Head(chars))
         IN  string_test_unclamped(r[1], Tail(chars), r[2])

string_test_clamp_once(exts, chars, col) ==
    LET r == string_test_unclamped(exts, chars, col)
    IN  <<r[1], line_clamp(r[2])>>

\* AbstractLine.string_test: <<extents, returned col>>
RECURSIVE string_test(_, _, _)
string_test(exts, chars, col) ==
    IF chars = <<>> THEN <<exts, col>>
    ELSE LET r == string_test_step(exts, col, Head(chars))
         IN  string_test(r[1], Tail(chars), r[2])

(***************************************************************************)
(* Terminal                                                                *)
(*                                                                         *)
(* The methods are operators on a record S holding the fields of the       *)
(* Terminal (line, column, scroll_base, max_line, lines) and the calls the *)
(* frontend has received so far during the running operation (draws,       *)
(* reinits, refreshes).  lines is the dict line -> extents of that line.   *)
(***************************************************************************)
\* Terminal.lines_screen: what the frontend reports
lines_screen == lines_per_screen

\* reinit that forgets to empty the dict of lines
reinit_keeps_lines(S) ==
    [S EXCEPT !.reinits = @ + 1,
              !.line = 0,
              !.column = 0,
              !.scroll_base = 0,
              !.max_line = 0]

\* Terminal.reinit
reinit(S) ==
    [S EXCEPT !.reinits = @ + 1,
              !.line = 0,
              !.column = 0,
              !.scroll_base = 0,
              !.max_line = 0,
              !.lines = <<>>]

\* alloc_line, giving a new line every time
alloc_line_replaces(lns, l) ==
    [k \in DOMAIN lns \cup {l} |-> IF k = l THEN <<>> ELSE lns[k]]

\* Terminal.alloc_line: the dict after the call (the entry exists afterwards)
alloc_line(lns, l) ==
    IF l \in DOMAIN lns THEN lns ELSE lns @@ (l :> <<>>)

\* Terminal.refresh_screen
refresh_screen(S) ==
    [S EXCEPT !.refreshes = Append(@, <<S.scroll_base, S.line, S.column>>)]

\* constrain_cursor whose right margin test is > instead of >=
constrain_cursor_off_by_one(S) ==
    LET S1 == IF S.line < 0 THEN [S EXCEPT !.line = 0] ELSE S
        S2 == IF S1.column < 0 THEN [S1 EXCEPT !.column = 0] ELSE S1
    IN  IF S2.column > COLUMNS THEN [S2 EXCEPT !.column = COLUMNS - 1] ELSE S2

\* Terminal.constrain_cursor
constrain_cursor(S) ==
    LET S1 == IF S.line < 0 THEN [S EXCEPT !.line = 0] ELSE S
        S2 == IF S1.column < 0 THEN [S1 EXCEPT !.column = 0] ELSE S1
    IN  IF S2.column >= COLUMNS THEN [S2 EXCEPT !.column = COLUMNS - 1] ELSE S2

\* scroll_into_view that only ever scrolls up
scroll_into_view_up_only(S) ==
    IF S.line < S.scroll_base THEN [S EXCEPT !.scroll_base = S.line] ELSE S

\* scroll_into_view that always puts the line at the top of the window
scroll_into_view_to_top(S) == [S EXCEPT !.scroll_base = S.line]

\* Terminal.scroll_into_view, called with line = None
scroll_into_view(S) ==
    LET l  == S.line
        S1 == IF l < S.scroll_base THEN [S EXCEPT !.scroll_base = l] ELSE S
    IN  IF l >= S1.scroll_base + lines_screen
        THEN [S1 EXCEPT !.scroll_base = l - lines_screen + 1]
        ELSE S1

\* constrain_scroll without its lower limit
constrain_scroll_no_floor(S) ==
    LET S1 == IF S.line > S.max_line THEN [S EXCEPT !.max_line = S.line] ELSE S
    IN  IF S1.scroll_base > S1.max_line - lines_screen + 1
        THEN [S1 EXCEPT !.scroll_base = S1.max_line - lines_screen + 1]
        ELSE S1

\* Terminal.constrain_scroll
constrain_scroll(S) ==
    LET S1 == IF S.line > S.max_line THEN [S EXCEPT !.max_line = S.line] ELSE S
        S2 == IF S1.scroll_base > S1.max_line - lines_screen + 1
              THEN [S1 EXCEPT !.scroll_base = S1.max_line - lines_screen + 1]
              ELSE S1
    IN  IF S2.scroll_base < 0 THEN [S2 EXCEPT !.scroll_base = 0] ELSE S2

\* the tab stop of Terminal.output_char: (self.column + 7) // 8 * 8
term_tab(col) == ((col + 7) \div 8) * 8

\* the match statement, were it to print the control characters it has no case for
output_char_match_prints_controls(S, char) ==
    CASE char = LF  -> [S EXCEPT !.line = @ + 1]
      [] char = CR  -> [S EXCEPT !.column = 0]
      [] char = TAB -> [S EXCEPT !.column = term_tab(@)]
      [] char = BS  -> [S EXCEPT !.column = @ - 1]
      [] char = FF  -> reinit(S)
      [] OTHER ->
            LET c   == upper(char)
                lns == alloc_line(S.lines, S.line)
            IN  [S EXCEPT !.lines = [lns EXCEPT ![S.line] = place_char(@, S.column, c)],
                          !.draws = Append(@, <<S.line, S.column, c>>),
                          !.column = @ + 1]

\* the match statement of Terminal.output_char
output_char_match(S, char) ==
    CASE char = LF  -> [S EXCEPT !.line = @ + 1]
      [] char = CR  -> [S EXCEPT !.column = 0]
      [] char = TAB -> [S EXCEPT !.column = term_tab(@)]
      [] char = BS  -> [S EXCEPT !.column = @ - 1]
      [] char = FF  -> reinit(S)
      [] OTHER ->
            IF char >= SP
            THEN LET c   == upper(char)
                     lns == alloc_line(S.lines, S.line)
                 IN  [S EXCEPT !.lines = [lns EXCEPT ![S.line] = place_char(@, S.column, c)],
                               !.draws = Append(@, <<S.line, S.column, c>>),
                               !.column = @ + 1]
            ELSE S

\* Terminal.output_char
output_char(S, char, refresh) ==
    LET S1 == scroll_into_view(constrain_cursor(output_char_match(S, char)))
    IN  IF refresh THEN refresh_screen(S1) ELSE S1

\* the for loop of Terminal.output_chars, were each output_char to refresh
RECURSIVE output_chars_loop_refreshing(_, _)
output_chars_loop_refreshing(S, chars) ==
    IF chars = <<>> THEN S
    ELSE LET S1 == output_char(S, Head(chars), TRUE)
         IN  IF S1 = S1 THEN output_chars_loop_refreshing(S1, Tail(chars)) ELSE S1

\* the for loop of Terminal.output_chars
RECURSIVE output_chars_loop(_, _)
output_chars_loop(S, chars) ==
    IF chars = <<>> THEN S
    ELSE LET S1 == output_char(S, Head(chars), FALSE)
         IN  \* S1 = S1 makes TLC evaluate S1 once, here, before the next iteration
             IF S1 = S1 THEN output_chars_loop(S1, Tail(chars)) ELSE S1

\* Terminal.output_chars
output_chars(S, chars, refresh) ==
    LET S1 == output_chars_loop(S, chars)
    IN  IF refresh THEN refresh_screen(S1) ELSE S1

\* Terminal.page_down
page_down(S) ==
    refresh_screen(constrain_scroll([S EXCEPT !.scroll_base = @ + (lines_screen \div 2)]))

\* Terminal.page_up
page_up(S) ==
    refresh_screen(constrain_scroll([S EXCEPT !.scroll_base = @ - (lines_screen \div 2)]))

(***************************************************************************)
(* The Terminal as a state machine: one action per public operation.       *)
(***************************************************************************)
\* the fields of the Terminal
TermState ==
    [line |-> line, column |-> column, scroll_base |-> scroll_base,
     max_line |-> max_line, lines |-> lines]

\* the Terminal at the start of an operation: no frontend call made yet
Enter ==
    [line |-> line, column |-> column, scroll_base |-> scroll_base,
     max_line |-> max_line, lines |-> lines,
     draws |-> <<>>, reinits |-> 0, refreshes |-> <<>>]

\* the state a Terminal operation leaves alone
TermFrame == UNCHANGED <<nprinted, lineVars, testVars, sndVars, wireVars, writeVars>>

\* the operation named name, with argument chars, has run and left S
Leave(S, name, chars) ==
    /\ line' = S.line
    /\ column' = S.column
    /\ scroll_base' = S.scroll_base
    /\ max_line' = S.max_line
    /\ lines' = S.lines
    /\ fe' = [draws |-> S.draws, reinits |-> S.reinits, refreshes |-> S.refreshes]
    /\ op' = [name |-> name, chars |-> chars]
    /\ pre' = TermState
    /\ nops' = nops + 1
    /\ UNCHANGED lines_per_screen

\* characters given to output_char
TermChars == {LF, CR, TAB, BS, FF, BEL, SP, ChA, ChUnder}

\* strings that take the cursor to the right margin
NineTabs == <<TAB, TAB, TAB, TAB, TAB, TAB, TAB, TAB, TAB>>
NineWords ==
    <<ChA, TAB, ChA, TAB, ChA, TAB, ChA, TAB, ChA, TAB, ChA, TAB, ChA, TAB, ChA, TAB, ChA, TAB>>

\* strings given to output_chars
TermStrings ==
    { <<>>,
      <<LF, LF, LF>>,
      <<ChA, BS, ChA>>,
      <<ChA, LF, ChUnder, LF, LF>>,
      NineTabs,
      NineWords }

\* Terminal.__init__, with a frontend of 1..MaxLinesScreen lines per screen
TermInit ==
    /\ line = 0
    /\ column = 0
    /\ scroll_base = 0
    /\ max_line = 0
    /\ lines = <<>>
    /\ lines_per_screen \in 1..MaxLinesScreen
    /\ fe = [draws |-> <<>>, reinits |-> 0, refreshes |-> <<>>]
    /\ op = [name |-> "init", chars |-> <<>>]
    /\ pre = [line |-> 0, column |-> 0, scroll_base |-> 0, max_line |-> 0, lines |-> <<>>]
    /\ nops = 0

OutputChar ==
    \E char \in TermChars :
        /\ nops < MaxOps
        /\ Leave(output_char(Enter, char, TRUE), "output_char", <<char>>)
        /\ TermFrame

OutputChars ==
    \E chars \in TermStrings :
        /\ nops < MaxOps
        /\ Leave(output_chars(Enter, chars, TRUE), "output_chars", chars)
        /\ TermFrame

PageDown ==
    /\ nops < MaxOps
    /\ Leave(page_down(Enter), "page_down", <<>>)
    /\ TermFrame

PageUp ==
    /\ nops < MaxOps
    /\ Leave(page_up(Enter), "page_up", <<>>)
    /\ TermFrame

\* the 7-bit printable characters, space to tilde
Printables == SP..126

\* strings that move the cursor before a printable character is output
PrintSetups ==
    { <<ChA>>, <<ChA, BS>>, <<TAB, LF>>, <<ChA, LF, LF, LF>>, NineTabs }

\* output_chars, moving the cursor of a new Terminal
PrintSetup ==
    \E chars \in PrintSetups :
        /\ nops = 0
        /\ Leave(output_chars(Enter, chars, TRUE), "output_chars", chars)
        /\ TermFrame

\* output_char of one printable character; nprinted counts them
PrintChar ==
    \E char \in Printables :
        /\ nprinted < MaxPrints
        /\ nprinted' = nprinted + 1
        /\ Leave(output_char(Enter, char, TRUE), "output_char", <<char>>)
        /\ UNCHANGED <<lineVars, testVars, sndVars, wireVars, writeVars>>

(***************************************************************************)
(* AbstractLine as a state machine.                                        *)
(*                                                                         *)
(* extents is the line; lcolumn is the column the caller holds (the value  *)
(* the last string_test returned).  lhist is the concatenation of the      *)
(* strings given to string_test since the line was lbase and the column    *)
(* lstart; lfed counts the characters fed to the line.                                                                 *)
(***************************************************************************)
\* characters given to the line model
LineChars == {TAB, CR, BS, SP, ChA, ChB}

\* columns string_test is started from, and place_char is called with
LineColumns == {0, 1, 2, 7, 70, 71}

RECURSIVE SeqsUpTo(_, _)
SeqsUpTo(S, n) ==
    IF n = 0 THEN {<<>>}
    ELSE LET shorter == SeqsUpTo(S, n - 1)
         IN  shorter \cup {Append(s, x) : s \in {t \in shorter : Len(t) = n - 1}, x \in S}

\* the state an AbstractLine operation leaves alone
LineFrame == UNCHANGED <<termVars, nprinted, testVars, sndVars, wireVars, writeVars>>

LineInit ==
    /\ extents = <<>>
    /\ lcolumn \in LineColumns
    /\ lbase = <<>>
    /\ lstart = lcolumn
    /\ lhist = <<>>
    /\ lop = [name |-> "init", col |-> 0, chars |-> <<>>]
    /\ lpre = <<>>
    /\ lfed = 0

\* line.string_test(chars, lcolumn) has run, the caller keeping the returned column
LineApply(chars) ==
    /\ LET r == string_test(extents, chars, lcolumn)
       IN  /\ extents' = r[1]
           /\ lcolumn' = r[2]
    /\ lhist' = lhist \o chars
    /\ lop' = [name |-> "string_test", col |-> lcolumn, chars |-> chars]
    /\ lpre' = extents
    /\ lfed' = lfed + Len(chars)
    /\ UNCHANGED <<lbase, lstart>>

StringTest ==
    \E chars \in SeqsUpTo(LineChars, MaxChunk) :
        /\ lfed + Len(chars) <= MaxLineChars
        /\ LineApply(chars)
        /\ LineFrame

\* line.place_char(col, char) called directly, as Terminal.output_char does
PlaceChar ==
    \E col \in LineColumns, char \in {SP, ChA, ChB} :
        /\ lfed < MaxLineChars
        /\ lfed' = lfed + 1
        /\ extents' = place_char(extents, col, char)
        /\ lbase' = extents'
        /\ lstart' = lcolumn
        /\ lhist' = <<>>
        /\ lop' = [name |-> "place_char", col |-> col, chars |-> <<char>>]
        /\ lpre' = extents
        /\ UNCHANGED lcolumn
        /\ LineFrame

(***************************************************************************)
(* AbstractLine.unit_test: a fresh line, one string_test from column 0.    *)
(***************************************************************************)
\* the glyphs of the unit tests
TestGlyphs == {ChB, ChO, ChL, ChD}

\* text, carriage return, the same text again: 'bold\rbold'
RetypeCR(text) == text \o <<CR>> \o text

\* each character typed, backspaced and typed again: 'b\bbo\bol\bld\bd'
RECURSIVE RetypeBS(_)
RetypeBS(text) ==
    IF text = <<>> THEN <<>>
    ELSE <<Head(text), BS, Head(text)>> \o RetypeBS(Tail(text))

TestTexts == SeqsUpTo(TestGlyphs, MaxText) \ {<<>>}

TestInit ==
    /\ ut_chars \in [kind : {"cr", "bs"}, text : TestTexts]
    /\ ut_extents = <<>>
    /\ ut_column = 0
    /\ ut_done = FALSE

\* the string the unit test feeds
TestInput ==
    IF ut_chars.kind = "cr" THEN RetypeCR(ut_chars.text) ELSE RetypeBS(ut_chars.text)

UnitTest ==
    /\ ~ut_done
    /\ LET r == string_test(<<>>, TestInput, 0)
       IN  /\ ut_extents' = r[1]
           /\ ut_column' = r[2]
    /\ ut_done' = TRUE
    /\ UNCHANGED ut_chars
    /\ UNCHANGED <<termVars, nprinted, lineVars, sndVars, wireVars, writeVars>>

(***************************************************************************)
(* The Terminal and an AbstractLine fed the same characters.               *)
(***************************************************************************)
\* characters fed to both
FeedChars == {TAB, CR, BS, LF, SP, ChA}

\* one character to Terminal.output_char and to string_test
FeedChar ==
    \E char \in FeedChars :
        /\ nops < MaxFeeds
        /\ Leave(output_char(Enter, char, TRUE), "output_char", <<char>>)
        /\ LineApply(<<char>>)
        /\ UNCHANGED <<nprinted, testVars, sndVars, wireVars, writeVars>>

\* one string to Terminal.output_chars and to string_test
FeedString ==
    \E chars \in {NineTabs, NineWords} :
        /\ nops < MaxFeeds
        /\ Leave(output_chars(Enter, chars, TRUE), "output_chars", chars)
        /\ LineApply(chars)
        /\ UNCHANGED <<nprinted, testVars, sndVars, wireVars, writeVars>>

(***************************************************************************)
(* PygameSounds                                                            *)
(*                                                                         *)
(* The operators take and return a record Z: the fields of the object, the *)
(* state of the mixer channels and of the pygame timers it drives, and what *)
(* the call under way has done so far (played, fades, restarts).           *)
(* Volumes are in thousandths.  Mixer channels: ch0 is 0, ch1 is 1, ch2 is *)
(* 3, and the effect channels _chfx are 3, 4 and 5.                        *)
(***************************************************************************)
\* the mixer channels start() takes
Ch0 == 0
Ch1 == 1
Ch2 == 3
chfx_channels == <<3, 4, 5>>
Channels == {0, 1, 3, 4, 5}

\* A call that has raised an exception (Z.raised) executes nothing more: every
\* operator below leaves such a Z as it is.

\* an assert on a channel or a loop sound that is still None fails
raise(Z) == [Z EXCEPT !.raised = TRUE]

\* pygame.time.set_timer(evt, millis): millis = 0 cancels, any other value arms
set_timer(Z, evt, millis) ==
    IF Z.raised THEN Z
    ELSE [Z EXCEPT !.timers = IF millis = 0 THEN @ \ {evt} ELSE @ \cup {evt}]

\* sequence q without its entries equal to x
RECURSIVE Without(_, _)
Without(q, x) ==
    IF q = <<>> THEN <<>>
    ELSE (IF Head(q) = x THEN <<>> ELSE <<Head(q)>>) \o Without(Tail(q), x)

\* Channel.play: the channel plays kind ("fx" once, "loop" for ever) and is not paused;
\* fx_order lists the channels playing an effect, the one started first at the head
channel_play(Z, ch, kind, name) ==
    IF Z.raised THEN Z
    ELSE [Z EXCEPT !.playing[ch] = kind,
                   !.paused = @ \ {ch},
                   !.fx_order = IF kind = "fx" THEN Append(Without(@, ch), ch)
                                ELSE Without(@, ch),
                   !.played = Append(@, [sound |-> name, channel |-> ch])]

\* the three set_volume calls of one step
set_volumes(Z, hum, spaces, chars) ==
    LET v == [hum |-> hum, spaces |-> spaces, chars |-> chars]
    IN  IF Z.raised THEN Z ELSE [Z EXCEPT !.volume = v, !.fades = Append(@, v)]

\* the indexes of _chfx whose channel is not busy
idle_chfx(Z) == {i \in 0..2 : Z.playing[chfx_channels[i + 1]] = "idle"}

\* an effect channel taken by rotation alone, whether or not a channel is idle
chfx_rotating(Z) == (Z.fx + 1) % 3

\* PygameSounds.chfx: the new value of _fx
chfx(Z) ==
    IF idle_chfx(Z) # {}
    THEN CHOOSE i \in idle_chfx(Z) : \A j \in idle_chfx(Z) : i <= j
    ELSE (Z.fx + 1) % 3

\* self.chfx.play(self.get(name)); chfx asserts that the channel is not None
play_effect(Z, name) ==
    LET i == chfx(Z)
    IN  IF Z.raised THEN Z
        ELSE IF ~Z.ready THEN raise(Z)
        ELSE channel_play([Z EXCEPT !.fx = i], chfx_channels[i + 1], "fx", name)

\* _start_loops, restarting the hum only
start_loops_hum_only(Z) ==
    [set_volumes(channel_play(Z, Ch0, "loop", "hum"), 0, 0, 0) EXCEPT !.restarts = @ + 1]

\* PygameSounds._start_loops; it asserts that ch0, ch1 and ch2 are not None
start_loops(Z) ==
    LET Z0 == channel_play(Z, Ch0, "loop", "hum")
        Z1 == channel_play(Z0, Ch1, "loop", "print-spaces")
        Z2 == channel_play(Z1, Ch2, "loop", "print-chars")
    IN  IF Z.raised THEN Z
        ELSE IF ~Z.ready THEN raise(Z)
        ELSE [set_volumes(Z2, 0, 0, 0) EXCEPT !.restarts = @ + 1]

\* PygameSounds._start_paused
start_paused(Z) ==
    [start_loops(Z) EXCEPT !.paused = @ \cup {Ch1, Ch2}]

\* how the scan of the sounds directory in start() ends: every file was read
\* ("loaded"), no file was read ("none": the first Sound() raised pygame.error or the
\* directory holds no .wav), or Sound() raised pygame.error after at least one file
\* had been read ("partial")
StartOutcomes == {"loaded", "none", "partial"}

\* PygameSounds.start
start(Z, outcome) ==
    CASE outcome = "none" -> Z
      [] outcome = "partial" -> [Z EXCEPT !.sounds = TRUE]
      [] OTHER ->
            LET Z0 == [Z EXCEPT !.sounds = TRUE, !.ready = TRUE]
                Z1 == channel_play(Z0, Ch0, "fx", "motor-on")
            IN  start_paused(set_timer(Z1, "SYNC", 1500))

\* get_volume() * 0.7
fade_step(v) == (v * 7) \div 10

\* the crossfade towards the hum without its last step
fade_hum_volumes_unfinished(Z) ==
    LET Z1 == set_volumes(Z, 300, fade_step(Z.volume.spaces), fade_step(Z.volume.chars))
        Z2 == set_volumes(Z1, 500, fade_step(Z1.volume.spaces), fade_step(Z1.volume.chars))
    IN  set_volumes(Z2, 700, fade_step(Z2.volume.spaces), fade_step(Z2.volume.chars))

\* the three steps of a crossfade towards the hum, and its end
fade_hum_volumes(Z) ==
    LET Z1 == set_volumes(Z, 300, fade_step(Z.volume.spaces), fade_step(Z.volume.chars))
        Z2 == set_volumes(Z1, 500, fade_step(Z1.volume.spaces), fade_step(Z1.volume.chars))
        Z3 == set_volumes(Z2, 700, fade_step(Z2.volume.spaces), fade_step(Z2.volume.chars))
    IN  set_volumes(Z3, 1000, 0, 0)

\* a crossfade towards the hum that silences the other loops and lets them run
fade_to_hum_running(Z) ==
    LET Z1 == IF Z.volume.hum <= 990 THEN fade_hum_volumes(Z) ELSE Z
    IN  IF Z.raised THEN Z
        ELSE IF ~Z.ready THEN raise(Z)
        ELSE Z1

\* PygameSounds._fade_to_hum
fade_to_hum(Z) ==
    LET Z1 == IF Z.volume.hum <= 990 THEN fade_hum_volumes(Z) ELSE Z
    IN  IF Z.raised THEN Z
        ELSE IF ~Z.ready THEN raise(Z)
        ELSE [Z1 EXCEPT !.paused = @ \cup {Ch1, Ch2}]

\* the crossfade towards the spaces loop without its last step
fade_spaces_volumes_unfinished(Z) ==
    LET Z1 == set_volumes(Z, fade_step(Z.volume.hum), 300, fade_step(Z.volume.chars))
        Z2 == set_volumes(Z1, fade_step(Z1.volume.hum), 500, fade_step(Z1.volume.chars))
    IN  set_volumes(Z2, fade_step(Z2.volume.hum), 700, fade_step(Z2.volume.chars))

\* the three steps of a crossfade towards the spaces loop, and its end
fade_spaces_volumes(Z) ==
    LET Z1 == set_volumes(Z, fade_step(Z.volume.hum), 300, fade_step(Z.volume.chars))
        Z2 == set_volumes(Z1, fade_step(Z1.volume.hum), 500, fade_step(Z1.volume.chars))
        Z3 == set_volumes(Z2, fade_step(Z2.volume.hum), 700, fade_step(Z2.volume.chars))
    IN  set_volumes(Z3, 0, 1000, 0)

\* PygameSounds._fade_to_spaces
fade_to_spaces(Z) ==
    LET Z1 == IF Z.volume.spaces <= 990 THEN fade_spaces_volumes(Z) ELSE Z
    IN  IF Z.raised THEN Z
        ELSE IF ~Z.ready THEN raise(Z)
        ELSE [Z1 EXCEPT !.paused = @ \ {Ch1, Ch2}]

\* the three steps of a crossfade towards the chars loop, and its end
fade_chars_volumes(Z) ==
    LET Z1 == set_volumes(Z, fade_step(Z.volume.hum), fade_step(Z.volume.spaces), 300)
        Z2 == set_volumes(Z1, fade_step(Z1.volume.hum), fade_step(Z1.volume.spaces), 500)
        Z3 == set_volumes(Z2, fade_step(Z2.volume.hum), fade_step(Z2.volume.spaces), 700)
    IN  set_volumes(Z3, 0, 0, 1000)

\* PygameSounds._fade_to_chars
fade_to_chars(Z) ==
    LET Z1 == IF Z.volume.chars <= 990 THEN fade_chars_volumes(Z) ELSE Z
    IN  IF Z.raised THEN Z
        ELSE IF ~Z.ready THEN raise(Z)
        ELSE [Z1 EXCEPT !.paused = @ \ {Ch1, Ch2}]

\* _sound_for_keypress, cancelling the timer only below zero
sound_for_keypress_below_zero(Z) ==
    IF Z.active_key_count < 0
    THEN set_timer(Z, "KEY", 0)
    ELSE play_effect(Z, "key")

\* PygameSounds._sound_for_keypress
sound_for_keypress(Z) ==
    IF Z.active_key_count <= 0
    THEN set_timer(Z, "KEY", 0)
    ELSE play_effect(Z, "key")

\* PygameSounds.keypress
keypress(Z) ==
    IF ~Z.sounds
    THEN Z
    ELSE LET Z1 == [Z EXCEPT !.active_key_count = @ + 1]
         IN  IF Z1.active_key_count > 1
             THEN Z1
             ELSE sound_for_keypress(set_timer(Z1, "KEY", 100))

\* PygameSounds._sound_for_char
sound_for_char(Z) ==
    IF Z.raised THEN Z
    ELSE IF ~Z.ready THEN raise(Z)
    ELSE IF Z.active_printout = <<>>
    THEN set_timer(set_timer(Z, "CHR", 0), "HUM", 100)
    ELSE LET next_char == Head(Z.active_printout)
         IN  CASE next_char = CR ->
                    set_timer(play_effect(set_volumes(Z, 0, 1000, 0), "cr"), "SYNC", 10)
               [] next_char = BEL ->
                    play_effect(set_volumes(Z, 0, 0, 0), "bell")
               [] next_char # CR /\ next_char # BEL /\ next_char <= 32 ->
                    fade_to_spaces(Z)
               [] OTHER ->
                    fade_to_chars(Z)

\* PygameSounds.print_chars
print_chars(Z, chars) ==
    IF ~Z.sounds
    THEN Z
    ELSE LET Z1 == [Z EXCEPT !.active_printout = @ \o chars]
         IN  sound_for_char(set_timer(Z1, "CHR", 100))

\* lid() that plays its effect and arms the sync timer but keeps the lid where it is
lid_without_flip(Z) ==
    IF ~Z.sounds
    THEN Z
    ELSE set_timer(play_effect(fade_to_hum(Z), "lid"), "SYNC", 250)

\* PygameSounds.lid
lid(Z) ==
    IF ~Z.sounds
    THEN Z
    ELSE LET Z1 == play_effect(fade_to_hum(Z), "lid")
             Z2 == IF Z1.raised THEN Z1
                   ELSE [Z1 EXCEPT !.lid_state = IF @ = "down" THEN "up" ELSE "down"]
         IN  set_timer(Z2, "SYNC", 250)

\* PygameSounds.platen
platen(Z) ==
    IF ~Z.sounds THEN Z ELSE play_effect(Z, "platen")

\* PygameSounds.event
event(Z, evt) ==
    IF ~Z.sounds
    THEN Z
    ELSE CASE evt = "HUM" ->
                LET Z1 == set_timer(Z, "HUM", 0)
                IN  IF Z1.active_printout # <<>> THEN Z1 ELSE fade_to_hum(Z1)
           [] evt = "KEY" ->
                sound_for_keypress([Z EXCEPT !.active_key_count = @ - 1])
           [] evt = "CHR" ->
                sound_for_char(
                    [Z EXCEPT !.active_printout = IF @ = <<>> THEN <<>> ELSE Tail(@)])
           [] evt = "SYNC" ->
                start_loops(set_timer(set_timer(Z, "SYNC", 0), "HUM", 100))
           [] OTHER -> Z

(***************************************************************************)
(* PygameSounds as a state machine: one action per public method, one for  *)
(* a pygame timer posting its event, one for the main loop handing a posted *)
(* event to event(), one for an effect playing to its end.                 *)
(***************************************************************************)
\* the fields of the object and the state of the mixer and the timers
SndState ==
    [sounds |-> sounds, lid_state |-> lid_state, fx |-> fx,
     active_key_count |-> active_key_count, active_printout |-> active_printout,
     volume |-> volume, playing |-> playing, paused |-> paused, timers |-> timers,
     ready |-> ready, fx_order |-> fx_order]

\* the same at the start of a call: nothing played, no volume set, no loop restarted
SndEnter ==
    [sounds |-> sounds, lid_state |-> lid_state, fx |-> fx,
     active_key_count |-> active_key_count, active_printout |-> active_printout,
     volume |-> volume, playing |-> playing, paused |-> paused, timers |-> timers,
     ready |-> ready, fx_order |-> fx_order,
     played |-> <<>>, fades |-> <<>>, restarts |-> 0, raised |-> FALSE]

\* the state a PygameSounds call leaves alone
SndFrame == UNCHANGED <<termVars, nprinted, lineVars, testVars, wireVars, writeVars>>

\* the key effects among the sounds played
RECURSIVE KeysIn(_)
KeysIn(plays) ==
    IF plays = <<>> THEN 0
    ELSE (IF Head(plays).sound = "key" THEN 1 ELSE 0) + KeysIn(Tail(plays))

\* the call named name, with argument arg, has run and left Z
SndLeave(Z, name, arg) ==
    /\ sounds' = Z.sounds
    /\ lid_state' = Z.lid_state
    /\ fx' = Z.fx
    /\ active_key_count' = Z.active_key_count
    /\ active_printout' = Z.active_printout
    /\ volume' = Z.volume
    /\ playing' = Z.playing
    /\ paused' = Z.paused
    /\ timers' = Z.timers
    /\ ready' = Z.ready
    /\ fx_order' = Z.fx_order
    /\ sfx' = [played |-> Z.played, fades |-> Z.fades, restarts |-> Z.restarts,
               raised |-> Z.raised]
    /\ sop' = [name |-> name, arg |-> arg]
    /\ spre' = SndState
    /\ key_effects' = key_effects + KeysIn(Z.played)

\* PygameSounds.__init__; no timer armed, no channel playing
SndInit ==
    /\ sounds = FALSE
    /\ lid_state = "up"
    /\ fx = 0
    /\ active_key_count = 0
    /\ active_printout = <<>>
    /\ volume = [hum |-> 1000, spaces |-> 1000, chars |-> 1000]
    /\ playing = [ch \in Channels |-> "idle"]
    /\ paused = {}
    /\ timers = {}
    /\ ready = FALSE
    /\ fx_order = <<>>
    /\ events = <<>>
    /\ sfx = [played |-> <<>>, fades |-> <<>>, restarts |-> 0, raised |-> FALSE]
    /\ sop = [name |-> "init", arg |-> <<>>]
    /\ spre = [sounds |-> FALSE, lid_state |-> "up", fx |-> 0, active_key_count |-> 0,
               active_printout |-> <<>>,
               volume |-> [hum |-> 1000, spaces |-> 1000, chars |-> 1000],
               playing |-> [ch \in Channels |-> "idle"], paused |-> {}, timers |-> {},
               ready |-> FALSE, fx_order |-> <<>>]
    /\ ncalls = 0
    /\ keys_pressed = 0
    /\ key_effects = 0

\* PygameFrontend.mainloop calls start() once, before it handles any event
Started == sop.name # "init"

\* strings given to print_chars
SoundTexts == { <<CR>>, <<BEL>>, <<SP, ChA>> }

\* the timer events of PygameSounds.EVENTS
TimerEvents == {"HUM", "KEY", "CHR", "SYNC"}

Start ==
    \E outcome \in StartOutcomes :
        /\ ~Started
        /\ SndLeave(start(SndEnter, outcome), "start", outcome)
        /\ UNCHANGED <<events, ncalls, keys_pressed>>
        /\ SndFrame

Keypress ==
    /\ Started
    /\ ncalls < MaxCalls
    /\ SndLeave(keypress(SndEnter), "keypress", <<>>)
    /\ ncalls' = ncalls + 1
    /\ keys_pressed' = keys_pressed + 1
    /\ UNCHANGED events
    /\ SndFrame

PrintChars ==
    \E chars \in SoundTexts :
        /\ Started
        /\ ncalls < MaxCalls
        /\ SndLeave(print_chars(SndEnter, chars), "print_chars", chars)
        /\ ncalls' = ncalls + 1
        /\ UNCHANGED <<events, keys_pressed>>
        /\ SndFrame

Lid ==
    /\ Started
    /\ ncalls < MaxCalls
    /\ SndLeave(lid(SndEnter), "lid", <<>>)
    /\ ncalls' = ncalls + 1
    /\ UNCHANGED <<events, keys_pressed>>
    /\ SndFrame

Platen ==
    /\ Started
    /\ ncalls < MaxCalls
    /\ SndLeave(platen(SndEnter), "platen", <<>>)
    /\ ncalls' = ncalls + 1
    /\ UNCHANGED <<events, keys_pressed>>
    /\ SndFrame

\* platen() called again and again, as when a page key is held down
PlatenHeld ==
    /\ Started
    /\ ncalls < MaxEffects
    /\ SndLeave(platen(SndEnter), "platen", <<>>)
    /\ ncalls' = ncalls + 1
    /\ UNCHANGED <<events, keys_pressed>>
    /\ SndFrame

\* an armed timer reaches its period: pygame posts its event; the timer stays armed
TimerFires ==
    \E evt \in timers :
        /\ Len(events) < MaxPending
        /\ events' = Append(events, evt)
        /\ UNCHANGED <<sounds, lid_state, fx, active_key_count, active_printout, volume,
                       playing, paused, timers, ready, fx_order, sop, spre, sfx, ncalls,
                       keys_pressed, key_effects>>
        /\ SndFrame

\* PygameFrontend.mainloop takes the oldest posted event and calls event()
HandleEvent ==
    /\ events # <<>>
    /\ SndLeave(event(SndEnter, Head(events)), "event", Head(events))
    /\ events' = Tail(events)
    /\ UNCHANGED <<ncalls, keys_pressed>>
    /\ SndFrame

\* an effect plays to its end: its channel is no longer busy
EffectEnds ==
    \E ch \in Channels :
        /\ playing[ch] = "fx"
        /\ playing' = [playing EXCEPT ![ch] = "idle"]
        /\ fx_order' = Without(fx_order, ch)
        /\ UNCHANGED <<sounds, lid_state, fx, active_key_count, active_printout, volume,
                       paused, timers, ready, events, sop, spre, sfx, ncalls, keys_pressed,
                       key_effects>>
        /\ SndFrame

(***************************************************************************)
(* main(frontend, backend): the backend thread and the frontend's loop.    *)
(*                                                                         *)
(* The backend thread runs thread_target: it reads the transport and gives *)
(* what it read to postchars, which main() has set to frontend.postchars.  *)
(* The main thread runs frontend.mainloop.  The sound engine has loaded no *)
(* sound here, so print_chars returns at once.                             *)
(***************************************************************************)
Frontends == {"pygame", "tkinter", "dummy"}
Backends == {"paramiko", "telnet", "telnetlib3", "filedesc"}

\* "Disconnected. Local mode.\r\n"
Notice ==
    <<68, 105, 115, 99, 111, 110, 110, 101, 99, 116, 101, 100, 46, SP,
      76, 111, 99, 97, 108, SP, 109, 111, 100, 101, 46, CR, LF>>

\* what a transport sends
Streams == { <<>>, <<ChA>>, <<ChA, ChB>>, <<ChA, CR, ChB>> }

\* the state these actions leave alone
WireFrame == UNCHANGED <<nprinted, lineVars, testVars, sndVars, writeVars>>

\* Terminal.output_chars(chars) runs on thread t
Deliver(chars, t) ==
    /\ Leave(output_chars(Enter, chars, TRUE), "output_chars", chars)
    /\ delivered' = Append(delivered, [chars |-> chars, thread |-> t])

\* the Terminal is left alone
NoDeliver == UNCHANGED <<termVars, delivered>>

\* frontend.postchars(chars) called on the backend thread returns normally
PostReturns ==
    IF frontend = "pygame" THEN Len(queue) < QueueSize ELSE terminal_set

\* frontend.postchars(chars) called on the backend thread: PygameFrontend posts an
\* event, which pygame refuses with pygame.error when its queue is full; the other
\* two frontends run Terminal.output_chars, and fail when terminal is None
Post(chars) ==
    /\ posted' = Append(posted, chars)
    /\ IF frontend = "pygame"
       THEN /\ queue' = IF Len(queue) < QueueSize THEN Append(queue, chars) ELSE queue
            /\ NoDeliver
       ELSE /\ UNCHANGED queue
            /\ IF terminal_set THEN Deliver(chars, "backend") ELSE NoDeliver

\* the backends whose loop catches pygame.error around postchars
CatchesPostError == backend \in {"telnet", "telnetlib3"}

\* the backend thread after postchars(chars) in the body of its loop: it goes on, or
\* the exception postchars raised ends it
AfterPost ==
    IF PostReturns \/ (frontend = "pygame" /\ CatchesPostError)
    THEN "running"
    ELSE "post_raised"

\* the number of characters one read returns
ReadLen ==
    IF fast_mode /\ backend \in {"paramiko", "filedesc"} THEN Len(incoming) ELSE 1

WireInit ==
    /\ frontend \in Frontends
    /\ backend \in Backends
    /\ fast_mode = FALSE
    /\ terminal_set = FALSE
    /\ incoming \in Streams
    /\ stream = "open"
    /\ thread = "running"
    /\ closure_met = FALSE
    /\ queue = <<>>
    /\ posted = <<>>
    /\ delivered = <<>>

\* frontend.mainloop(my_term) starts on the main thread: self.terminal = terminal
Mainloop ==
    /\ ~terminal_set
    /\ terminal_set' = TRUE
    /\ UNCHANGED <<frontend, backend, fast_mode, incoming, stream, thread, closure_met,
                   queue, posted, delivered>>
    /\ UNCHANGED termVars
    /\ WireFrame

\* F5 in the Tkinter and Pygame frontends: backend.fast_mode changes
ToggleFast ==
    /\ terminal_set
    /\ frontend \in {"pygame", "tkinter"}
    /\ fast_mode' = ~fast_mode
    /\ UNCHANGED <<frontend, backend, terminal_set, incoming, stream, thread, closure_met,
                   queue, posted, delivered>>
    /\ UNCHANGED termVars
    /\ WireFrame

\* the far end closes the stream (end of file) or the connection fails (reset, or a
\* descriptor whose read raises OSError)
TransportCloses ==
    \E how \in {"eof", "error"} :
        /\ stream = "open"
        /\ stream' = how
        /\ UNCHANGED <<frontend, backend, fast_mode, terminal_set, incoming, thread,
                       closure_met, queue, posted, delivered>>
        /\ UNCHANGED termVars
        /\ WireFrame

\* one pass of the loop of thread_target that reads characters and posts them
BackendReads ==
    /\ thread = "running"
    /\ incoming # <<>>
    /\ Post(SubSeq(incoming, 1, ReadLen))
    /\ incoming' = SubSeq(incoming, ReadLen + 1, Len(incoming))
    /\ thread' = AfterPost
    /\ UNCHANGED <<frontend, backend, fast_mode, terminal_set, stream, closure_met>>
    /\ WireFrame

\* PygameFrontend.mainloop handles the oldest character event
MainloopDelivers ==
    /\ frontend = "pygame"
    /\ terminal_set
    /\ queue # <<>>
    /\ Deliver(Head(queue), "main")
    /\ queue' = Tail(queue)
    /\ print_chars(SndEnter, Head(queue)) = SndEnter
    /\ UNCHANGED <<frontend, backend, fast_mode, terminal_set, incoming, stream, thread,
                   closure_met, posted>>
    /\ WireFrame

\* the read that meets the end of the stream raises an exception the loop does not
\* catch: os.read of FiledescBackend in fast mode is outside the try, and
\* TelnetLib3Backend.reader catches pygame.error only
ReadRaises ==
    /\ stream = "error"
    /\ \/ backend = "filedesc" /\ fast_mode
       \/ backend = "telnetlib3"

\* the read that meets the end of the stream ends the loop: an empty read or a caught
\* exception leads to break; TelnetLib3Backend.reader has no way out of its loop
ReadBreaks == ~ReadRaises /\ backend # "telnetlib3"

\* the empty strings among the strings posted
RECURSIVE EmptyPosts(_)
EmptyPosts(texts) ==
    IF texts = <<>> THEN 0
    ELSE (IF Head(texts) = <<>> THEN 1 ELSE 0) + EmptyPosts(Tail(texts))

\* one pass of the loop of thread_target whose read meets the end of the stream, and
\* what follows the loop
BackendMeetsClosure ==
    /\ thread = "running"
    /\ incoming = <<>>
    /\ stream # "open"
    /\ closure_met' = TRUE
    /\ IF ReadRaises
       THEN /\ thread' = "read_raised"
            /\ UNCHANGED <<posted, queue>>
            /\ NoDeliver
       ELSE IF ReadBreaks
       THEN /\ Post(Notice)
            /\ thread' = IF PostReturns THEN "done" ELSE "post_raised"
       ELSE /\ EmptyPosts(posted) < MaxEmptyPosts
            /\ Post(<<>>)
            /\ thread' = AfterPost
    /\ UNCHANGED <<frontend, backend, fast_mode, terminal_set, incoming, stream>>
    /\ WireFrame

(***************************************************************************)
(* write_char against thread_target.                                       *)
(*                                                                         *)
(* The frontend calls backend.write_char for each keystroke on its own     *)
(* thread while the backend thread runs thread_target.  write_char tests   *)
(* the backend's handle on the transport (ParamikoBackend.channel,         *)
(* TelnetBackend.conn, FiledescBackend.write_fd) and then reads it again to *)
(* send; the other thread can run between the two.                         *)
(***************************************************************************)
WriteBackends == {"paramiko", "telnet", "filedesc"}

\* the state these actions leave alone
WriteFrame == UNCHANGED <<termVars, nprinted, lineVars, testVars, sndVars, wireVars>>

WriteInit ==
    /\ tpc = "start"
    /\ link = "none"
    /\ handle = FALSE
    /\ writing = [pc |-> "idle", began |-> "start"]
    /\ keys = <<>>

\* thread_target connects and assigns the handle: self.channel = ssh.open_session(),
\* with Telnet(...) as self.conn, setup() assigning write_fd
BackendConnects ==
    /\ tpc = "start"
    /\ tpc' = "open"
    /\ link' = "up"
    /\ handle' = TRUE
    /\ UNCHANGED <<writing, keys>>
    /\ WriteFrame

\* the loop of thread_target ends at a break
BackendLoopEnds ==
    /\ tpc = "open"
    /\ tpc' = "ended"
    /\ UNCHANGED <<link, handle, writing, keys>>
    /\ WriteFrame

\* the with statement is left: Telnet.__exit__ closes the connection, the os.close
\* calls of FiledescBackend.teardown close the descriptors; the handle is not None
\* yet.  ParamikoBackend closes nothing.
BackendTearsDown ==
    /\ tpc = "ended"
    /\ backend \in {"telnet", "filedesc"}
    /\ tpc' = "torn"
    /\ link' = "closed"
    /\ UNCHANGED <<handle, writing, keys>>
    /\ WriteFrame

\* self.channel = None, self.conn = None, self.read_fd = self.write_fd = None
BackendClearsHandle ==
    /\ IF backend = "paramiko" THEN tpc = "ended" ELSE tpc = "torn"
    /\ tpc' = "cleared"
    /\ handle' = FALSE
    /\ UNCHANGED <<link, writing, keys>>
    /\ WriteFrame

\* write_char(char) evaluates its if: with no handle it echoes through postchars
WriteCharTests ==
    /\ writing.pc = "idle"
    /\ Len(keys) < MaxKeys
    /\ IF handle
       THEN /\ writing' = [pc |-> "send", began |-> tpc]
            /\ UNCHANGED keys
       ELSE /\ keys' = Append(keys, [outcome |-> "echoed", began |-> tpc])
            /\ UNCHANGED writing
    /\ UNCHANGED <<tpc, link, handle>>
    /\ WriteFrame

\* what the send of write_char can come to: self.channel.send, self.conn.write or
\* os.write(self.write_fd, ...) with the handle read again.  A handle that is None by
\* now raises; a closed Telnet has no socket and raises; a closed descriptor raises
\* OSError, or, its number given to another file meanwhile, takes the write.
SendOutcomes ==
    IF ~handle THEN {"raised"}
    ELSE IF link = "closed"
    THEN (IF backend = "filedesc" THEN {"raised", "misdirected"} ELSE {"raised"})
    ELSE {"sent"}

\* write_char(char) sends
WriteCharSends ==
    \E outcome \in SendOutcomes :
        /\ writing.pc = "send"
        /\ keys' = Append(keys, [outcome |-> outcome, began |-> writing.began])
        /\ writing' = [writing EXCEPT !.pc = "idle"]
        /\ UNCHANGED <<tpc, link, handle>>
        /\ WriteFrame

(***************************************************************************)
(* Specifications.                                                         *)
(***************************************************************************)
\* the parts of the state a specification does not use
TermIdle ==
    /\ line = 0 /\ column = 0 /\ scroll_base = 0 /\ max_line = 0 /\ lines = <<>>
    /\ lines_per_screen = 1
    /\ fe = [draws |-> <<>>, reinits |-> 0, refreshes |-> <<>>]
    /\ op = [name |-> "init", chars |-> <<>>]
    /\ pre = [line |-> 0, column |-> 0, scroll_base |-> 0, max_line |-> 0, lines |-> <<>>]
    /\ nops = 0

LineIdle ==
    /\ extents = <<>> /\ lcolumn = 0 /\ lbase = <<>> /\ lstart = 0 /\ lhist = <<>>
    /\ lop = [name |-> "init", col |-> 0, chars |-> <<>>]
    /\ lpre = <<>> /\ lfed = 0

TestIdle ==
    /\ ut_chars = [kind |-> "cr", text |-> <<>>]
    /\ ut_extents = <<>> /\ ut_column = 0 /\ ut_done = FALSE

PrintIdle == nprinted = 0

SndIdle == SndInit

WireIdle ==
    /\ frontend = "dummy" /\ backend = "filedesc" /\ fast_mode = FALSE
    /\ terminal_set = FALSE /\ incoming = <<>> /\ stream = "open"
    /\ thread = "running" /\ closure_met = FALSE
    /\ queue = <<>> /\ posted = <<>> /\ delivered = <<>>

WriteIdle == WriteInit

\* the Terminal
Init == TermInit /\ PrintIdle /\ LineIdle /\ TestIdle /\ SndIdle /\ WireIdle /\ WriteIdle
Next ==
    \/ OutputChar
    \/ OutputChars
    \/ PageDown
    \/ PageUp
Spec == Init /\ [][Next]_vars

\* the line model
InitLine == LineInit /\ TermIdle /\ PrintIdle /\ TestIdle /\ SndIdle /\ WireIdle /\ WriteIdle
NextLine ==
    \/ StringTest
    \/ PlaceChar
SpecLine == InitLine /\ [][NextLine]_vars

\* the Terminal and a line, fed the same characters
InitFeed == TermInit /\ PrintIdle /\ LineInit /\ TestIdle /\ SndIdle /\ WireIdle /\ WriteIdle
NextFeed ==
    \/ FeedChar
    \/ FeedString
SpecFeed == InitFeed /\ [][NextFeed]_vars

\* the unit tests of the line model
InitTest == TestInit /\ TermIdle /\ PrintIdle /\ LineIdle /\ SndIdle /\ WireIdle /\ WriteIdle
NextTest == UnitTest
SpecTest == InitTest /\ [][NextTest]_vars

\* output_char of the printable characters
InitPrint == TermInit /\ PrintIdle /\ LineIdle /\ TestIdle /\ SndIdle /\ WireIdle /\ WriteIdle
NextPrint ==
    \/ PrintSetup
    \/ PrintChar
SpecPrint == InitPrint /\ [][NextPrint]_vars

\* the sound engine
InitSound == SndInit /\ TermIdle /\ PrintIdle /\ LineIdle /\ TestIdle /\ WireIdle /\ WriteIdle
NextSound ==
    \/ Start
    \/ Keypress
    \/ PrintChars
    \/ Lid
    \/ Platen
    \/ TimerFires
    \/ HandleEvent
    \/ EffectEnds
SpecSound == InitSound /\ [][NextSound]_vars

\* the effect pool under a run of platen effects, no timer event handled
InitPool == InitSound
NextPool ==
    \/ Start
    \/ PlatenHeld
    \/ EffectEnds
SpecPool == InitPool /\ [][NextPool]_vars

\* the sound engine printing and its lid moved, with its timers running: every
\* armed timer posts its event again and again (pygame.time.set_timer repeats) and
\* the main loop handles every posted event (pygame.event.wait in mainloop)
\* (effects are left playing: the end of an effect changes only the channel the
\* next effect takes)
PrintCharsThenWait == ncalls < MaxLiveCalls /\ PrintChars
LidThenWait == ncalls < MaxLiveCalls /\ Lid
InitLive == InitSound
NextLive ==
    \/ Start
    \/ PrintCharsThenWait
    \/ LidThenWait
    \/ TimerFires
    \/ HandleEvent
LiveFairness ==
    /\ WF_vars(HandleEvent)
    /\ WF_vars(TimerFires)
SpecLive == InitLive /\ [][NextLive]_vars /\ LiveFairness

\* keystrokes written while the backend thread connects and disconnects
InitWrite ==
    /\ WriteInit
    /\ frontend = "dummy" /\ backend \in WriteBackends /\ fast_mode = FALSE
    /\ terminal_set = FALSE /\ incoming = <<>> /\ stream = "open"
    /\ thread = "running" /\ closure_met = FALSE
    /\ queue = <<>> /\ posted = <<>> /\ delivered = <<>>
    /\ TermIdle /\ PrintIdle /\ LineIdle /\ TestIdle /\ SndIdle
NextWrite ==
    \/ BackendConnects
    \/ BackendLoopEnds
    \/ BackendTearsDown
    \/ BackendClearsHandle
    \/ WriteCharTests
    \/ WriteCharSends
SpecWrite == InitWrite /\ [][NextWrite]_vars

\* a session started by main()
InitWire == WireInit /\ TermInit /\ PrintIdle /\ LineIdle /\ TestIdle /\ SndIdle /\ WriteIdle
NextWire ==
    \/ Mainloop
    \/ ToggleFast
    \/ TransportCloses
    \/ BackendReads
    \/ BackendMeetsClosure
    \/ MainloopDelivers
SpecWire == InitWire /\ [][NextWire]_vars

(***************************************************************************)
(* Properties of the Terminal.                                             *)
(***************************************************************************)
\* the cursor line is inside the window of lines_per_screen lines at scroll_base
CursorVisible ==
    /\ scroll_base <= line
    /\ line <= scroll_base + lines_per_screen - 1

\* the same, of the Terminal before the last operation
CursorVisibleBefore ==
    /\ pre.scroll_base <= pre.line
    /\ pre.line <= pre.scroll_base + lines_per_screen - 1

\* the last operation put at least one character through output_char
DidOutput ==
    \/ op.name = "output_char"
    \/ op.name = "output_chars" /\ op.chars # <<>>

\* C1, as stated: in every state reachable by output_char / output_chars, page_up
\* and page_down, scroll_base >= 0 and the cursor line is inside the window.
C1_CursorAlwaysVisible ==
    /\ scroll_base >= 0
    /\ CursorVisible

\* C1, amended: scroll_base >= 0 in every reachable state; the cursor line is
\* inside the window after every operation that output a character, and page_down
\* keeps a visible cursor visible.  (page_up can leave the cursor below the window.)
C1_CursorVisibleAfterOutput ==
    /\ scroll_base >= 0
    /\ DidOutput => CursorVisible
    /\ (op.name = "page_down" /\ CursorVisibleBefore) => CursorVisible

\* C1 witness: a character is output while page_up had left the cursor below the
\* window, and the cursor is back inside it
C1_Witness ==
    /\ op.name = "output_char"
    /\ pre.line > pre.scroll_base + lines_per_screen - 1
    /\ CursorVisible
    /\ scroll_base > 0

\* C3: a form feed given to output_char leaves the dict of lines empty, the cursor
\* at line 0, column 0, scroll_base 0 and max_line 0, and has called the frontend's
\* reinit exactly once.
C3_FormFeedReinit ==
    (op.name = "output_char" /\ op.chars = <<FF>>) =>
        /\ DOMAIN lines = {}
        /\ line = 0
        /\ column = 0
        /\ scroll_base = 0
        /\ max_line = 0
        /\ fe.reinits = 1

\* C3 witness: the form feed came with lines stored, the cursor away from the
\* origin, the window scrolled and max_line raised by paging
C3_Witness ==
    /\ op.name = "output_char" /\ op.chars = <<FF>>
    /\ DOMAIN pre.lines # {}
    /\ pre.line > 0
    /\ pre.column > 0
    /\ pre.scroll_base > 0
    /\ pre.max_line > 0
    /\ DOMAIN lines = {}

\* the smallest multiple of 8 strictly greater than col
NextTabStop(col) == ((col \div 8) + 1) * 8

\* C10, as stated: a tab given to output_char moves the column to the smallest
\* multiple of 8 strictly greater than the column, clamped to 71.
C10_TabAdvances ==
    (op.name = "output_char" /\ op.chars = <<TAB>>) =>
        column = Min(NextTabStop(pre.column), COLUMNS - 1)

(***************************************************************************)
(* Properties of the cursor column, Terminal and line model together.      *)
(***************************************************************************)
\* C2: after every output_char of the Terminal and after every character of
\* string_test started from a column in range, the column is in 0..71, and the
\* Terminal's line is >= 0.
C2_ColumnInRange ==
    /\ 0 <= column /\ column <= COLUMNS - 1
    /\ line >= 0
    /\ 0 <= lcolumn /\ lcolumn <= 71

\* C2 witness: a character was printed at the right margin of both
C2_Witness ==
    /\ op.name = "output_char" /\ op.chars = <<ChA>>
    /\ pre.column = COLUMNS - 1 /\ column = COLUMNS - 1
    /\ lop.col = 71 /\ lcolumn = 71

(***************************************************************************)
(* Properties of AbstractLine.                                             *)
(***************************************************************************)
\* the columns extent e covers
ExtentColumns(e) == e[1] .. (e[1] + Len(e[2]) - 1)

\* extent e ends where a character placed at col is merged into it
Adjacent(e, col) ==
    LET end == e[1] + Len(e[2])
    IN  end = col \/ end + 1 = col

\* C4, as stated: place_char(column, char) with a non-space char either appends
\* char to the one extent that ends at column or one column before it, the number
\* of extents unchanged, or, when there is no such extent, appends exactly one new
\* extent (column, char) and changes no existing extent.
C4_PlaceCharOneOfTwo ==
    (lop.name = "place_char" /\ lop.chars # <<SP>>) =>
        LET col == lop.col
            char == lop.chars[1]
            adj == {i \in 1..Len(lpre) : Adjacent(lpre[i], col)}
        IN  IF adj # {}
            THEN /\ Len(extents) = Len(lpre)
                 /\ \E i \in adj :
                        \A j \in 1..Len(lpre) :
                            IF j = i
                            THEN /\ extents[j][1] = lpre[j][1]
                                 /\ extents[j][2] \in {lpre[j][2] \o <<char>>,
                                                       lpre[j][2] \o <<SP, char>>}
                            ELSE extents[j] = lpre[j]
            ELSE extents = Append(lpre, <<col, <<char>>>>)

\* C5, as stated: the extents of a line are pairwise non-overlapping.
C5_ExtentsDisjoint ==
    \A i, j \in 1..Len(extents) :
        i # j => ExtentColumns(extents[i]) \cap ExtentColumns(extents[j]) = {}

\* C5, amended: extents can overlap; every extent is non-empty and lies within
\* the 72 columns of the line.
C5_ExtentsWithinLine ==
    \A i \in 1..Len(extents) :
        /\ Len(extents[i][2]) >= 1
        /\ ExtentColumns(extents[i]) \subseteq 0..71

\* C5 witness: two extents cover the same column, and an extent ends at column 71
C5_Witness ==
    /\ \E i, j \in 1..Len(extents) :
            i # j /\ ExtentColumns(extents[i]) \cap ExtentColumns(extents[j]) # {}
    /\ \E i \in 1..Len(extents) : extents[i][1] + Len(extents[i][2]) - 1 = 71

\* C6, as stated: no extent's text contains a space.
C6_NoSpaceStored ==
    \A i \in 1..Len(extents) :
        \A k \in 1..Len(extents[i][2]) : extents[i][2][k] # SP

\* C6, amended: placing a space changes nothing, and an extent's text never begins
\* or ends with a space nor holds two spaces in a row; it holds a space where a
\* character was placed one column past the end of the extent.
C6_SpaceOnlyAsGap ==
    /\ (lop.name = "place_char" /\ lop.chars = <<SP>>) => extents = lpre
    /\ \A i \in 1..Len(extents) :
            LET text == extents[i][2]
            IN  /\ text # <<>>
                /\ text[1] # SP
                /\ text[Len(text)] # SP
                /\ \A k \in 1..(Len(text) - 1) : ~(text[k] = SP /\ text[k + 1] = SP)

\* C6 witness: a space was placed on a line one of whose extents holds a gap
C6_Witness ==
    /\ lop.name = "place_char" /\ lop.chars = <<SP>>
    /\ \E i \in 1..Len(extents) :
            \E k \in 1..Len(extents[i][2]) : extents[i][2][k] = SP

\* C9: string_test of a concatenation, from the line lbase and the column lstart,
\* returns the column and leaves the extents that the successive string_test
\* calls on the parts have returned and left.
C9_ApplyAssociative ==
    string_test(lbase, lhist, lstart) = <<extents, lcolumn>>

\* C9 witness: at least two non-empty strings were applied in succession, the
\* last one from a column the first had moved, and the line holds extents
C9_Witness ==
    /\ lop.name = "string_test"
    /\ lop.chars # <<>>
    /\ Len(lhist) > Len(lop.chars)
    /\ lop.col # lstart
    /\ extents # <<>>

(***************************************************************************)
(* Properties of the overstrike unit tests.                                *)
(***************************************************************************)
\* the number of extents of exts equal to e
Count(exts, e) == Cardinality({i \in 1..Len(exts) : exts[i] = e})

\* text from column c (0-based) to its end
Suffix(text, c) == SubSeq(text, c + 1, Len(text))

\* every extent starts at a column of the text and holds the text from that column
\* to its end: one glyph for each column it covers, the glyph of the text there
ExtentsShowText(exts, text) ==
    \A i \in 1..Len(exts) :
        /\ exts[i][1] \in 0..(Len(text) - 1)
        /\ exts[i][2] = Suffix(text, exts[i][1])

\* exactly two extents start at column 0, and each holds the whole text
TwoExtentsAtColumn0(exts, text) ==
    /\ Cardinality({i \in 1..Len(exts) : exts[i][1] = 0}) = 2
    /\ Count(exts, <<0, text>>) = 2

\* C7, as stated: a space-free text, carriage return and the same text again
\* ('bold\rbold') leave exactly one extent, starting at column 0.
C7_RetypeOneExtent ==
    (ut_done /\ ut_chars.kind = "cr") =>
        /\ Len(ut_extents) = 1
        /\ ut_extents[1][1] = 0

\* C7, amended: the two passes are not merged into one extent: exactly two
\* extents start at column 0, each holding the whole text; every extent of the
\* line holds, for each column it covers, the glyph of the text at that column;
\* the returned column is the length of the text, clamped to 71.
C7_RetypeTwoExtents ==
    (ut_done /\ ut_chars.kind = "cr") =>
        /\ TwoExtentsAtColumn0(ut_extents, ut_chars.text)
        /\ ExtentsShowText(ut_extents, ut_chars.text)
        /\ ut_column = Min(Len(ut_chars.text), 71)

\* C7 witness: 'bold\rbold' has been applied
C7_Witness ==
    /\ ut_done
    /\ ut_chars = [kind |-> "cr", text |-> <<ChB, ChO, ChL, ChD>>]
    /\ Count(ut_extents, <<0, <<ChB, ChO, ChL, ChD>>>>) = 2

\* C8, as stated: each column typed, backspaced and typed again
\* ('b\bbo\bol\bld\bd') leaves exactly one extent per column, holding both
\* characters typed at that column and nothing else.
C8_OneExtentPerColumn ==
    (ut_done /\ ut_chars.kind = "bs") =>
        /\ Len(ut_extents) = Len(ut_chars.text)
        /\ \A c \in 0..(Len(ut_chars.text) - 1) :
                Count(ut_extents, <<c, <<ut_chars.text[c + 1], ut_chars.text[c + 1]>>>>) = 1

\* C8, amended: no extent holds both characters typed at a column: every extent
\* holds one glyph for each column it covers, the glyph of the text there, and
\* the two characters typed at column 0 start two different extents, each of
\* which grows to hold the whole text, so that every column is covered by at
\* least two extents.
C8_RetypeTwoExtentsPerColumn ==
    (ut_done /\ ut_chars.kind = "bs") =>
        /\ ExtentsShowText(ut_extents, ut_chars.text)
        /\ TwoExtentsAtColumn0(ut_extents, ut_chars.text)
        /\ \A c \in 0..(Len(ut_chars.text) - 1) :
                Cardinality({i \in 1..Len(ut_extents) : c \in ExtentColumns(ut_extents[i])}) >= 2
        /\ ut_column = Len(ut_chars.text)

\* C8 witness: 'b\bbo\bol\bld\bd' has been applied
C8_Witness ==
    /\ ut_done
    /\ ut_chars = [kind |-> "bs", text |-> <<ChB, ChO, ChL, ChD>>]
    /\ Count(ut_extents, <<3, <<ChD>>>>) = 2


(***************************************************************************)
(* Properties of output_char on printable characters.                      *)
(***************************************************************************)
\* the last operation was output_char of a printable character
PrintedChar == op.name = "output_char" /\ op.chars[1] \in Printables

\* some extent of line l records character c at column col
Stored(l, col, c) ==
    /\ l \in DOMAIN lines
    /\ \E i \in 1..Len(lines[l]) :
          LET e == lines[l][i]
          IN  col \in ExtentColumns(e) /\ e[2][col - e[1] + 1] = c

\* a letter a-z as its upper-case letter, any other character unchanged
FoldLetter(c) == IF c \in 97..122 THEN c - 32 ELSE c

\* a character from a (0x61) up lowered by 32, any character below unchanged
FoldStick(c) == IF c >= 97 THEN c - 32 ELSE c

\* what output_char of printable character c, folded to g, has left
Printed(c, g) ==
    /\ fe.draws = << <<pre.line, pre.column, g>> >>
    /\ c # SP => Stored(pre.line, pre.column, g)
    /\ line = pre.line
    /\ column = Min(pre.column + 1, COLUMNS - 1)

\* C11, as stated: output_char of a printable character draws and stores, at the
\* cursor, the upper-case letter for a-z and the character itself for every other
\* character from 0x20 to 0x7E, and then moves the cursor one column to the right.
C11_FoldsLettersOnly ==
    PrintedChar => Printed(op.chars[1], FoldLetter(op.chars[1]))

\* C11, what the code does: output_char of a printable character folds every character
\* from a (0x61) to ~ (0x7E) down by 32, so a-z become A-Z and { | } ~ become [ \ ] ^;
\* every character from 0x20 to ` (0x60) is unchanged.  The folded character is
\* drawn at the cursor and, unless it is a space, stored there; a space stores
\* nothing but makes sure the line exists.  The cursor then moves one column to the
\* right, staying on column 71 at the right margin.
C11_FoldsUpperStick ==
    PrintedChar =>
        /\ Printed(op.chars[1], FoldStick(op.chars[1]))
        /\ op.chars[1] = SP =>
              /\ pre.line \in DOMAIN lines
              /\ lines[pre.line] =
                    IF pre.line \in DOMAIN pre.lines THEN pre.lines[pre.line] ELSE <<>>

\* C11 witness: a left brace (0x7B) was output on a line below the first and drawn
\* as a left bracket (0x5B)
C11_Witness ==
    /\ PrintedChar
    /\ op.chars[1] = 123
    /\ pre.line > 0
    /\ fe.draws = << <<pre.line, pre.column, 91>> >>

(***************************************************************************)
(* output_chars against output_char, character by character.               *)
(***************************************************************************)
\* output_char, with its default refresh, on each character of chars in turn
RECURSIVE each_output_char(_, _)
each_output_char(S, chars) ==
    IF chars = <<>> THEN S
    ELSE LET S1 == output_char(S, Head(chars), TRUE)
         IN  IF S1 = S1 THEN each_output_char(S1, Tail(chars)) ELSE S1

\* the Terminal before the last operation, no frontend call made yet
EnterBefore ==
    [line |-> pre.line, column |-> pre.column, scroll_base |-> pre.scroll_base,
     max_line |-> pre.max_line, lines |-> pre.lines,
     draws |-> <<>>, reinits |-> 0, refreshes |-> <<>>]

\* C12: output_chars(s) leaves the Terminal in the state, and the frontend with the
\* draw_char and reinit calls, that output_char on each character of s in turn
\* leaves, and calls refresh_screen exactly once, with the final scroll base and
\* cursor.
C12_OutputCharsAsEachChar ==
    op.name = "output_chars" =>
        LET R == each_output_char(EnterBefore, op.chars)
        IN  /\ line = R.line
            /\ column = R.column
            /\ scroll_base = R.scroll_base
            /\ max_line = R.max_line
            /\ lines = R.lines
            /\ fe.draws = R.draws
            /\ fe.reinits = R.reinits
            /\ fe.refreshes = << <<scroll_base, line, column>> >>

\* C12 witness: output_chars of several characters drew on two lines, overstruck
\* nothing away and refreshed once
C12_Witness ==
    /\ op.name = "output_chars"
    /\ Len(op.chars) >= 3
    /\ Len(fe.draws) >= 2
    /\ fe.draws[1][1] # fe.draws[2][1]
    /\ Len(fe.refreshes) = 1


(***************************************************************************)
(* Properties of PygameSounds.                                             *)
(***************************************************************************)
\* no keypress is pending: the counter is 0, the key timer is not armed and none of
\* its events waits to be handled
KeyIdle ==
    /\ active_key_count = 0
    /\ "KEY" \notin timers
    /\ \A i \in 1..Len(events) : events[i] # "KEY"

\* the last call was event(evt)
Handled(evt) == sop.name = "event" /\ sop.arg = evt

\* C16, as stated: once no keypress is pending, as many key effects have been played
\* as keypress calls were made, however the calls interleave with the key timer.
C16_OneEffectPerKeypress ==
    (ready /\ KeyIdle) => key_effects = keys_pressed

\* C17: on a started engine with no keypress pending, keypress makes the counter 1,
\* arms the key timer and plays one key effect; the key event handled while one
\* keypress is pending makes the counter 0, cancels the key timer and plays nothing.
C17_KeypressThenDecay ==
    /\ (ready /\ sop.name = "keypress" /\ spre.active_key_count = 0) =>
          /\ active_key_count = 1
          /\ "KEY" \in timers
          /\ Len(sfx.played) = 1
          /\ sfx.played[1].sound = "key"
    /\ (ready /\ Handled("KEY") /\ spre.active_key_count = 1) =>
          /\ active_key_count = 0
          /\ "KEY" \notin timers
          /\ sfx.played = <<>>

\* C17 witness: the one keypress made has played its one effect, its key event was
\* handled and nothing is pending
C17_Witness ==
    /\ ready
    /\ Handled("KEY")
    /\ spre.active_key_count = 1
    /\ keys_pressed = 1
    /\ key_effects = 1
    /\ KeyIdle

\* the three loops at rest: the hum at full volume, the other two silent
HumOnly == [hum |-> 1000, spaces |-> 0, chars |-> 0]
\* the spaces loop alone at full volume
SpacesOnly == [hum |-> 0, spaces |-> 1000, chars |-> 0]

\* the last call was print_chars("\r") on an engine with an empty print queue and
\* the hum at full volume
PrintedCRWhileIdle ==
    /\ ready
    /\ sop.name = "print_chars"
    /\ sop.arg = <<CR>>
    /\ spre.active_printout = <<>>
    /\ spre.volume = HumOnly

\* C18: print_chars("\r") while idle sets the hum volume to 0, the spaces volume to
\* 1 and the chars volume to 0, plays one "cr" effect and arms the sync timer; the
\* sync event, when handled, cancels the sync timer, arms the hum timer and starts
\* the hum, spaces and chars loops again, once each.
C18_CarriageReturnThenSync ==
    /\ PrintedCRWhileIdle =>
          /\ volume = SpacesOnly
          /\ Len(sfx.played) = 1
          /\ sfx.played[1].sound = "cr"
          /\ "SYNC" \in timers
    /\ (ready /\ Handled("SYNC")) =>
          /\ "SYNC" \notin timers
          /\ "HUM" \in timers
          /\ sfx.restarts = 1
          /\ sfx.played = << [sound |-> "hum", channel |-> Ch0],
                             [sound |-> "print-spaces", channel |-> Ch1],
                             [sound |-> "print-chars", channel |-> Ch2] >>
          /\ playing[Ch0] = "loop" /\ playing[Ch1] = "loop" /\ playing[Ch2] = "loop"

\* C18 witness: print_chars("\r") was called on an idle engine with no timer armed
C18_Witness ==
    /\ PrintedCRWhileIdle
    /\ spre.timers = {}
    /\ volume = SpacesOnly

\* each volume of v is between 0 and 1
VolumesInRange(v) ==
    /\ v.hum \in 0..1000
    /\ v.spaces \in 0..1000
    /\ v.chars \in 0..1000

\* at most one volume of v is not 0
AtMostOneAudible(v) ==
    \/ v.hum = 0 /\ v.spaces = 0
    \/ v.hum = 0 /\ v.chars = 0
    \/ v.spaces = 0 /\ v.chars = 0

\* C19: after every call on a started engine each of the hum, spaces and chars volumes
\* is between 0 and 1 and at most one of them is not 0; the volumes set during the
\* call are between 0 and 1 too.
C19_OneLoopAudible ==
    ready =>
        /\ VolumesInRange(volume)
        /\ AtMostOneAudible(volume)
        /\ \A i \in 1..Len(sfx.fades) : VolumesInRange(sfx.fades[i])

\* C19 witness: a call crossfaded from the hum to the spaces loop; two loops were
\* audible during the crossfade and the spaces loop alone is audible after it
C19_Witness ==
    /\ ready
    /\ spre.volume = HumOnly
    /\ Len(sfx.fades) = 4
    /\ ~AtMostOneAudible(sfx.fades[1])
    /\ volume = SpacesOnly

\* C20, as stated: active_key_count >= 0 and the print queue has length >= 0 after
\* every call.
C20_CountersNotNegative ==
    /\ active_key_count >= 0
    /\ Len(active_printout) >= 0


(***************************************************************************)
(* Properties of a session started by main().                              *)
(***************************************************************************)
\* the strings given to Terminal.output_chars, in order
RECURSIVE DeliveredTexts(_)
DeliveredTexts(d) ==
    IF d = <<>> THEN <<>> ELSE <<Head(d).chars>> \o DeliveredTexts(Tail(d))

\* how many times the notice was given to postchars
RECURSIVE Notices(_)
Notices(texts) ==
    IF texts = <<>> THEN 0
    ELSE (IF Head(texts) = Notice THEN 1 ELSE 0) + Notices(Tail(texts))

\* C13, as stated: for every frontend and backend given to main(), Terminal.output_chars
\* runs on the main (presentation loop) thread only, never on the backend thread.
C13_EngineOnMainThreadOnly ==
    \A i \in 1..Len(delivered) : delivered[i].thread = "main"

\* C14, as stated: with the pygame frontend, the strings given to postchars are the
\* strings given to Terminal.output_chars followed by those still queued, in the same
\* order, none lost or repeated, also when the queue was full at the time of posting.
C14_DeliveredOnceInOrder ==
    frontend = "pygame" => DeliveredTexts(delivered) \o queue = posted

\* C15, as stated: once a read of the thread_target loop has met the end of the stream
\* (end of file, reset or failed descriptor), in paced or fast mode, the loop has
\* ended, the notice was given to postchars exactly once and no exception of the
\* read has ended the thread.
C15_ClosureEndsThread ==
    /\ Notices(posted) <= 1
    /\ closure_met =>
          /\ thread \in {"done", "post_raised"}
          /\ Notices(posted) = 1


(***************************************************************************)
(* Properties of paging and of the line mapping.                           *)
(***************************************************************************)
Max(a, b) == IF a > b THEN a ELSE b

\* x brought into lo..hi
Clamp(x, lo, hi) == Max(lo, Min(x, hi))

\* the last operation was page_down or page_up
Paged == op.name \in {"page_down", "page_up"}

\* the half screen page_down adds to scroll_base and page_up takes from it
PageShift == IF op.name = "page_down" THEN lines_per_screen \div 2
             ELSE 0 - (lines_per_screen \div 2)

\* C27: page_down adds lines_per_screen // 2 to scroll_base and page_up subtracts it,
\* and scroll_base is then brought into 0 .. max(0, max_line - lines_per_screen + 1),
\* max_line being the highest line the cursor has reached since the last reinit,
\* which is the cursor line, the cursor never moving up; line, column and the stored
\* lines are unchanged and refresh_screen is called exactly once, nothing is drawn.
C27_PagingShiftsAndClamps ==
    /\ max_line <= line
    /\ Paged =>
          /\ max_line = line
          /\ scroll_base = Clamp(pre.scroll_base + PageShift, 0,
                                 Max(0, max_line - lines_per_screen + 1))
          /\ line = pre.line
          /\ column = pre.column
          /\ lines = pre.lines
          /\ fe.refreshes = << <<scroll_base, line, column>> >>
          /\ fe.draws = <<>>
          /\ fe.reinits = 0

\* C27 witness: page_up moved the window up by half a screen of at least two lines,
\* and not to the top
C27_Witness ==
    /\ op.name = "page_up"
    /\ lines_per_screen >= 2
    /\ scroll_base = pre.scroll_base - (lines_per_screen \div 2)
    /\ scroll_base > 0

\* the lines on which the last operation drew a character
DrawnLines == {fe.draws[i][1] : i \in 1..Len(fe.draws)}

\* the printable characters among chars
RECURSIVE PrintableCount(_)
PrintableCount(chars) ==
    IF chars = <<>> THEN 0
    ELSE (IF Head(chars) >= SP THEN 1 ELSE 0) + PrintableCount(Tail(chars))

\* line new holds everything line old held: the same extents at the same start
\* columns, their texts possibly longer, and possibly more extents
LineKept(old, new) ==
    /\ Len(new) >= Len(old)
    /\ \A i \in 1..Len(old) :
          /\ new[i][1] = old[i][1]
          /\ Len(new[i][2]) >= Len(old[i][2])
          /\ SubSeq(new[i][2], 1, Len(old[i][2])) = old[i][2]

\* C28: the line mapping has an entry for exactly the lines on which a printable
\* character was output since the last reinit: an operation without form feed adds
\* the lines it drew on to the keys and keeps every line it found, draw_char being
\* called once for each printable character; form feed empties the mapping; every
\* key is <= the cursor line.
C28_LinesCreatedOnWrite ==
    /\ \A l \in DOMAIN lines : l <= line
    /\ Len(fe.draws) = PrintableCount(op.chars)
    /\ fe.reinits = 0 =>
          /\ DOMAIN lines = DOMAIN pre.lines \cup DrawnLines
          /\ \A l \in DOMAIN pre.lines : LineKept(pre.lines[l], lines[l])
    /\ fe.reinits > 0 => (op.chars = <<FF>> /\ lines = <<>>)

\* C28 witness: output_chars wrote on some lines and only passed over another, which
\* has no entry
C28_Witness ==
    /\ op.name = "output_chars"
    /\ DOMAIN lines # DOMAIN pre.lines
    /\ \E l \in 0..line : l \notin DOMAIN lines
    /\ \E l \in DOMAIN pre.lines : Len(lines[l]) > Len(pre.lines[l])

(***************************************************************************)
(* The Terminal against the line model, column by column.                  *)
(***************************************************************************)
\* start column and length of each extent of a line
RECURSIVE ExtentShape(_)
ExtentShape(exts) ==
    IF exts = <<>> THEN <<>>
    ELSE << <<Head(exts)[1], Len(Head(exts)[2])>> >> \o ExtentShape(Tail(exts))

\* no newline was fed
NoNewlineFed == \A i \in 1..Len(lhist) : lhist[i] # LF

\* C30, as stated: a Terminal and a line, both at column 0, fed the same string
\* without newline and form feed end at the same column and have placed the printable
\* characters at the same columns.
C30_SameColumnAsLineModel ==
    (lstart = 0 /\ NoNewlineFed) =>
        /\ column = lcolumn
        /\ ExtentShape(IF 0 \in DOMAIN lines THEN lines[0] ELSE <<>>) = ExtentShape(extents)


(***************************************************************************)
(* The sound engine: failed loading, the lid, the hum timer, effect pool   *)
(***************************************************************************)

\* start() ended without taking its channels: no sound file was read, or the scan
\* raised after it had read some
LoadFailed == Started /\ ~ready

\* C21, as stated: after a start() whose loading failed, every later call returns
\* without raising and leaves the key counter, the print queue, the lid state, the
\* timers and the volumes as they were.
C21_FailedLoadMakesCallsNoOps ==
    (LoadFailed /\ sop.name # "start") =>
        /\ ~sfx.raised
        /\ active_key_count = spre.active_key_count
        /\ active_printout = spre.active_printout
        /\ lid_state = spre.lid_state
        /\ timers = spre.timers
        /\ volume = spre.volume

\* C22: lid_state is "up" or "down"; lid() on a started engine flips it, so that
\* a second lid() restores it; keypress, print_chars, platen and the handling of
\* every timer event leave it as it was.
C22_LidFlippedByLidOnly ==
    /\ lid_state \in {"up", "down"}
    /\ (ready /\ sop.name = "lid") =>
          /\ spre.lid_state = "up" => lid_state = "down"
          /\ spre.lid_state = "down" => lid_state = "up"
    /\ sop.name \in {"keypress", "print_chars", "platen", "event"} =>
          lid_state = spre.lid_state

\* C22 witness: the second of two lid() calls has put the lid back up
C22_Witness ==
    /\ ready
    /\ sop.name = "lid"
    /\ spre.lid_state = "down"
    /\ lid_state = "up"

\* the sounds played once on a channel of the effect pool
EffectSounds == {"key", "cr", "bell", "lid", "platen"}

\* the effects the last call dispatched, as positions in its list of plays
Dispatched == {i \in 1..Len(sfx.played) : sfx.played[i].sound \in EffectSounds}

\* the indices of the pool whose channel was idle when the last call began
PoolIdleBefore == {i \in 0..2 : spre.playing[chfx_channels[i + 1]] = "idle"}

\* C25: an effect is played on the pool channel the cursor points at afterwards;
\* the cursor is the lowest index whose channel was idle, or, when all three were
\* busy, the earlier cursor plus one modulo 3; the cursor is always in 0..2.
C25_FirstIdleElseRotate ==
    /\ fx \in 0..2
    /\ \A i \in Dispatched :
          /\ sfx.played[i].channel = chfx_channels[fx + 1]
          /\ IF PoolIdleBefore # {}
             THEN fx \in PoolIdleBefore /\ \A j \in PoolIdleBefore : fx <= j
             ELSE fx = (spre.fx + 1) % 3

\* C25 witness: an effect was dispatched while all three channels were busy and the
\* cursor wrapped from 2 to 0
C25_Witness ==
    /\ Dispatched # {}
    /\ PoolIdleBefore = {}
    /\ spre.fx = 2
    /\ fx = 0

\* the mixer channels that carry the hum, spaces and chars loops
LoopChannels == {Ch0, Ch1, Ch2}

\* C29, as stated: no effect is played on a channel that carries a loop, and no
\* channel of the effect pool is busy with a loop.
C29_PoolDisjointFromLoops ==
    /\ \A i \in Dispatched : sfx.played[i].channel \notin LoopChannels
    /\ \A i \in 1..3 : playing[chfx_channels[i]] # "loop"

\* what the code does instead: an effect dispatched while channels 4 and 5 are busy
\* and the chars loop plays is played on the channel of the chars loop and ends it
C29_EffectCutsCharsLoop ==
    /\ Dispatched # {}
    /\ spre.playing[Ch2] = "loop"
    /\ playing[Ch2] = "fx"

\* every channel of the effect pool was playing an effect when the last call began
PoolFullOfEffects == \A i \in 1..3 : spre.playing[chfx_channels[i]] = "fx"

\* C26, as stated: an effect dispatched while every channel of the pool plays an
\* effect is played on the channel whose effect was started first.
C26_StealsOldest ==
    (PoolFullOfEffects /\ Dispatched # {}) =>
        \A i \in Dispatched : sfx.played[i].channel = Head(spre.fx_order)

\* the chars loop alone at full volume
CharsOnly == [hum |-> 0, spaces |-> 0, chars |-> 1000]

\* the volumes before step i of the last call's volume settings
FadeBefore(i) == IF i = 1 THEN spre.volume ELSE sfx.fades[i - 1]

\* during the last call the spaces and chars volumes never went up
PrintLoopsNeverLouder ==
    \A i \in 1..Len(sfx.fades) :
        /\ sfx.fades[i].spaces <= FadeBefore(i).spaces
        /\ sfx.fades[i].chars <= FadeBefore(i).chars

\* the hum volume went through 0.3, 0.5 and 0.7 to 1 during the last call
HumFadedIn ==
    /\ Len(sfx.fades) = 4
    /\ sfx.fades[1].hum = 300
    /\ sfx.fades[2].hum = 500
    /\ sfx.fades[3].hum = 700
    /\ sfx.fades[4].hum = 1000

\* the hum event was handled with the print queue not empty and did nothing but
\* cancel the hum timer
HumEventDidNothingElse ==
    /\ timers = spre.timers \ {"HUM"}
    /\ lid_state = spre.lid_state
    /\ fx = spre.fx
    /\ active_key_count = spre.active_key_count
    /\ active_printout = spre.active_printout
    /\ volume = spre.volume
    /\ paused = spre.paused
    /\ sfx.played = <<>>
    /\ sfx.fades = <<>>
    /\ sfx.restarts = 0

\* a spaces or chars loop at volume 0 is paused
SilentLoopsPaused ==
    /\ volume.spaces = 0 => Ch1 \in paused
    /\ volume.chars = 0 => Ch2 \in paused

\* the character the last print_chars or char event made a sound for, if any
SoundedChar == Head(active_printout)
SoundedPrintable ==
    /\ \/ sop.name = "print_chars"
       \/ Handled("CHR")
    /\ active_printout # <<>>
    /\ SoundedChar \notin {CR, BEL}

\* C24, as stated: the hum event handled cancels the hum timer; with a non-empty
\* print queue it changes nothing else, otherwise the hum goes through 0.3, 0.5, 0.7
\* to 1 while the other two volumes never go up and end at 0, their channels paused;
\* and after every call a spaces or chars loop at volume 0 is paused.
C24_HumResumesSilentLoopsPaused ==
    /\ (ready /\ Handled("HUM")) =>
          /\ "HUM" \notin timers
          /\ spre.active_printout # <<>> => HumEventDidNothingElse
          /\ spre.active_printout = <<>> =>
                /\ HumFadedIn
                /\ PrintLoopsNeverLouder
                /\ volume = HumOnly
                /\ Ch1 \in paused /\ Ch2 \in paused
    /\ ready => SilentLoopsPaused

\* C24, amended: the hum event as above, the hum going through 0.3, 0.5, 0.7 only
\* when it was not at full volume already; the silent spaces and chars loops are
\* paused after start() and after a crossfade to the hum, but a crossfade to the
\* spaces or the chars loop leaves both channels unpaused, the silent one too, and
\* the sync event leaves all three loops playing, unpaused, at volume 0.
C24_HumResumesPrintLoopsPausedTogether ==
    /\ (ready /\ Handled("HUM")) =>
          /\ "HUM" \notin timers
          /\ spre.active_printout # <<>> => HumEventDidNothingElse
          /\ spre.active_printout = <<>> =>
                /\ IF spre.volume.hum <= 990 THEN HumFadedIn ELSE sfx.fades = <<>>
                /\ PrintLoopsNeverLouder
                /\ volume = HumOnly
                /\ Ch1 \in paused /\ Ch2 \in paused
    /\ (ready /\ sop.name = "start") =>
          /\ SilentLoopsPaused
          /\ volume = [hum |-> 0, spaces |-> 0, chars |-> 0]
    /\ (ready /\ SoundedPrintable) =>
          /\ volume = IF SoundedChar <= SP THEN SpacesOnly ELSE CharsOnly
          /\ Ch1 \notin paused /\ Ch2 \notin paused
    /\ (ready /\ Handled("SYNC")) =>
          /\ volume = [hum |-> 0, spaces |-> 0, chars |-> 0]
          /\ paused \cap {Ch0, Ch1, Ch2} = {}

\* C24 witness: the hum event was handled after the last character, a printable one,
\* had been printed: the chars loop faded out and both print loops were paused
C24_Witness ==
    /\ ready
    /\ Handled("HUM")
    /\ spre.active_printout = <<>>
    /\ spre.volume = CharsOnly
    /\ Ch2 \notin spre.paused
    /\ HumFadedIn
    /\ volume = HumOnly
    /\ Ch1 \in paused /\ Ch2 \in paused

\* the print queue is empty and the char timer is not armed
Drained == active_printout = <<>> /\ "CHR" \notin timers

\* the engine at rest: nothing to print, the hum alone audible, no timer armed
AtRest == active_printout = <<>> /\ volume = HumOnly /\ timers = {}

\* C23: once the sounds are started, whatever print_chars and lid calls are made, the
\* print queue becomes empty with the char timer cancelled, and the engine comes to
\* rest and stays there: hum volume 1, spaces and chars volumes 0, no timer armed.
C23_DrainsThenRests == ready ~> [](Drained /\ AtRest)

\* C23 witness: after a call the hum event was handled and the engine is at rest,
\* no event waiting
C23_Witness ==
    /\ ready
    /\ ncalls > 0
    /\ Handled("HUM")
    /\ events = <<>>
    /\ Drained
    /\ AtRest

(***************************************************************************)
(* The Terminal: the window after each character, ignored control          *)
(* characters.                                                             *)
(***************************************************************************)

\* the cursor line the last operation left is inside the window as it was before the
\* operation: scroll_into_view had nothing to do
LineInWindowBefore ==
    /\ pre.scroll_base <= line
    /\ line <= pre.scroll_base + lines_per_screen - 1

\* C35: every output_char, whatever its character, leaves the cursor line inside the
\* window, also when paging had moved the window away; if the cursor line it leaves
\* was already inside the window, scroll_base is as it was.
C35_OutputCharScrollsIntoView ==
    op.name = "output_char" =>
        /\ CursorVisible
        /\ LineInWindowBefore => scroll_base = pre.scroll_base

\* C35 witness: page_up had left the cursor below the window and a bell, which
\* changes nothing else, brought the window back to it
C35_Witness ==
    /\ op.name = "output_char"
    /\ op.chars = <<BEL>>
    /\ pre.line > pre.scroll_base + lines_per_screen - 1
    /\ CursorVisible
    /\ scroll_base # pre.scroll_base

\* the characters below space that the match statement has a case for
HandledControls == {LF, CR, TAB, BS, FF}

\* C37: a control character below space other than newline, carriage return, tab,
\* backspace and form feed given to output_char leaves line, column, max_line and
\* the lines as they were and draws nothing.
C37_OtherControlsIgnored ==
    (op.name = "output_char" /\ op.chars[1] < SP /\ op.chars[1] \notin HandledControls) =>
        /\ line = pre.line
        /\ column = pre.column
        /\ max_line = pre.max_line
        /\ lines = pre.lines
        /\ fe.draws = <<>>

\* C37 witness: a bell was output with the cursor on a line that holds text, away
\* from the left margin
C37_Witness ==
    /\ op.name = "output_char"
    /\ op.chars = <<BEL>>
    /\ pre.column > 0
    /\ pre.line \in DOMAIN pre.lines
    /\ lines = pre.lines

(***************************************************************************)
(* The line model: nothing is erased.                                      *)
(***************************************************************************)

\* some extent of exts records char at column col
Recorded(exts, col, char) ==
    \E i \in 1..Len(exts) :
        /\ exts[i][1] <= col
        /\ col - exts[i][1] < Len(exts[i][2])
        /\ exts[i][2][col - exts[i][1] + 1] = char

\* every extent of old is in new at the same place, with the same start column and
\* a text that begins with the text it had
Extends(old, new) ==
    /\ Len(new) >= Len(old)
    /\ \A i \in 1..Len(old) :
          /\ new[i][1] = old[i][1]
          /\ Len(new[i][2]) >= Len(old[i][2])
          /\ SubSeq(new[i][2], 1, Len(old[i][2])) = old[i][2]

\* C36: no step of a Line removes an extent, shortens an extent's text or changes an
\* extent's start column; a character recorded at a column stays recorded at that
\* column; and a non-space character given to place_char is recorded at its column.
C36_LineNeverErases ==
    [][ /\ Extends(extents, extents')
        /\ \A i \in 1..Len(extents) : \A k \in 1..Len(extents[i][2]) :
              Recorded(extents', extents[i][1] + k - 1, extents[i][2][k])
        /\ (lop'.name = "place_char" /\ lop'.chars # <<SP>>) =>
              Recorded(extents', lop'.col, lop'.chars[1])
      ]_vars

\* C36 witness: a character was placed at a column where the line already recorded
\* another one, and the line records both
C36_Witness ==
    /\ lop.name = "place_char"
    /\ lop.chars = <<ChB>>
    /\ Recorded(lpre, lop.col, ChA)
    /\ Recorded(extents, lop.col, ChA)
    /\ Recorded(extents, lop.col, ChB)

(***************************************************************************)
(* The sound engine: audible loops, one sound per printed character.       *)
(***************************************************************************)

\* C34, as stated: between calls, a spaces or chars loop whose volume is not 0 is not
\* paused.
C34_AudibleLoopsUnpaused ==
    ready =>
        /\ volume.spaces # 0 => Ch1 \notin paused
        /\ volume.chars # 0 => Ch2 \notin paused

\* what the code does instead: print_chars("\r") on an engine at rest, both print
\* loops paused, sets the spaces volume to 1 and leaves the spaces channel paused
C34_CarriageReturnLeavesLoopPaused ==
    /\ PrintedCRWhileIdle
    /\ Ch1 \in spre.paused
    /\ volume = SpacesOnly
    /\ Ch1 \in paused

\* C31, as stated: a carriage return or bell is sounded once, when it comes to the
\* head of the print queue; a print_chars call made while the queue holds characters
\* dispatches no effect and arms no sync timer for the character at the head.
C31_HeadNotReplayed ==
    (ready /\ sop.name = "print_chars" /\ spre.active_printout # <<>>) =>
        /\ Dispatched = {}
        /\ "SYNC" \in timers => "SYNC" \in spre.timers

\* what the code does instead: the carriage return at the head of the queue, sounded
\* by the call that queued it, is sounded again by the next print_chars call
C31_CarriageReturnSoundedTwice ==
    /\ ready
    /\ sop.name = "print_chars"
    /\ spre.active_printout = <<CR>>
    /\ Len(sfx.played) = 1
    /\ sfx.played[1].sound = "cr"

(***************************************************************************)
(* A session started by main(): the terminal reference, keystrokes.        *)
(***************************************************************************)

\* C32, as stated: nothing is posted to a frontend whose postchars needs the
\* terminal (Tkinter, Dummy) before mainloop has set the frontend's terminal.
C32_TerminalSetBeforePost ==
    (frontend \in {"tkinter", "dummy"} /\ posted # <<>>) => terminal_set

\* what the code does instead: the backend thread posted its first text before the
\* main thread entered mainloop, and the assert in postchars ended the thread
C32_PostBeforeMainloop ==
    /\ frontend \in {"tkinter", "dummy"}
    /\ ~terminal_set
    /\ Len(posted) = 1
    /\ thread = "post_raised"
    /\ delivered = <<>>

\* C33, as stated: under every interleaving of write_char with the backend thread,
\* every keystroke given to write_char is sent to the connected transport or echoed
\* through postchars; none is lost to an exception and none is written to a
\* transport that was torn down.
C33_KeystrokeSentOrEchoed ==
    \A i \in 1..Len(keys) : keys[i].outcome \in {"sent", "echoed"}

\* what the code does instead: a write_char that found the handle set while the
\* transport was connected sends after the other thread has cleared the handle
C33_SendAfterHandleCleared ==
    /\ Len(keys) = 1
    /\ keys[1] = [outcome |-> "raised", began |-> "open"]
    /\ tpc = "cleared"

=============================================================================
